---------------------------- MODULE Spec2Model ----------------------------
(***************************************************************************)
(* Model of the extraction-and-classification core of budgetmanager:       *)
(*   - OCRService.parse_transactions     (src/services/ocr_service.py)     *)
(*   - CategorizationService.categorize  (categorization_service.py)       *)
(*   - NotificationParser.parse_sms / parse_email (notification_parser.py) *)
(*                                                                         *)
(* Text is modelled character by character: a Python str is a sequence of  *)
(* one-character strings.  Characters outside ASCII carry an ASCII name:   *)
(* "eacute", "egrave", "ecirc", "ccedil", "acirc", "ocirc" (and "Eacute"   *)
(* ... for the capitals), "euro" (the euro sign), "endash", "nbsp"         *)
(* (U+00A0), "box" / "boxv" (the checkbox glyphs), "tab", "nl".  Regular    *)
(* expressions are syntax trees matched by a backtracking matcher with     *)
(* the priorities of the re module.                                        *)
(***************************************************************************)
EXTENDS Integers, Sequences, FiniteSets, TLC

(***************************************************************************)
(* Characters and str methods                                              *)
(***************************************************************************)
Range(f) == {f[i] : i \in DOMAIN f}

Digits == {"0","1","2","3","4","5","6","7","8","9"}

\* str.isspace(): what str.strip() removes and what \s matches.
WhiteSpace == {" ", "tab", "nbsp", "nl"}

UpperSeq == <<"A","B","C","D","E","F","G","H","I","J","K","L","M","N","O","P","Q","R","S","T","U","V","W","X","Y","Z","Eacute","Egrave","Ecirc","Ccedil","Acirc","Ocirc">>

LowerSeq == <<"a","b","c","d","e","f","g","h","i","j","k","l","m","n","o","p","q","r","s","t","u","v","w","x","y","z","eacute","egrave","ecirc","ccedil","acirc","ocirc">>

LowerMap == [c \in Range(UpperSeq) |-> LowerSeq[CHOOSE i \in 1..Len(UpperSeq) : UpperSeq[i] = c]]

UpperMap == [c \in Range(LowerSeq) |-> UpperSeq[CHOOSE i \in 1..Len(LowerSeq) : LowerSeq[i] = c]]

ToLower(c) == IF c \in DOMAIN LowerMap THEN LowerMap[c] ELSE c

ToUpper(c) == IF c \in DOMAIN UpperMap THEN UpperMap[c] ELSE c

\* \w of a str pattern: letters, digits and the underscore.
WordChars == Range(UpperSeq) \cup Range(LowerSeq) \cup Digits \cup {"_"}

LowerStr(s) == [i \in 1..Len(s) |-> ToLower(s[i])]

UpperStr(s) == [i \in 1..Len(s) |-> ToUpper(s[i])]

SetMin(S) == CHOOSE x \in S : \A y \in S : x <= y

SetMax(S) == CHOOSE x \in S : \A y \in S : x >= y

RECURSIVE StripChars(_, _)
\* str.strip(chars): drops the leading and trailing characters that are in W.
StripChars(s, W) ==
    IF s = <<>> THEN s
    ELSE IF s[1] \in W THEN StripChars(Tail(s), W)
    ELSE IF s[Len(s)] \in W THEN StripChars(SubSeq(s, 1, Len(s) - 1), W)
    ELSE s

\* str.strip()
Strip(s) == StripChars(s, WhiteSpace)

StartsAt(s, i, sub) ==
    /\ i + Len(sub) - 1 <= Len(s)
    /\ \A k \in 1..Len(sub) : s[i + k - 1] = sub[k]

\* sub in s
Contains(s, sub) == \E i \in 1..(Len(s) - Len(sub) + 1) : StartsAt(s, i, sub)

RECURSIVE ReplaceFrom(_, _, _, _)
ReplaceFrom(s, i, old, new) ==
    IF i > Len(s) THEN <<>>
    ELSE IF StartsAt(s, i, old)
         THEN new \o ReplaceFrom(s, i + Len(old), old, new)
         ELSE <<s[i]>> \o ReplaceFrom(s, i + 1, old, new)

\* str.replace(old, new) for a non-empty old: every occurrence, left to right.
Replace(s, old, new) == IF old = <<>> THEN s ELSE ReplaceFrom(s, 1, old, new)

\* The pieces of two adjoining parts of a string: the last piece of the
\* first part goes on in the first piece of the second.
JoinPieces(a, b) ==
    SubSeq(a, 1, Len(a) - 1) \o <<a[Len(a)] \o b[1]>> \o Tail(b)

RECURSIVE SplitFrom(_, _, _, _)
\* The pieces of s[lo..hi], by halves.
SplitFrom(s, lo, hi, sep) ==
    IF lo > hi THEN << <<>> >>
    ELSE IF lo = hi THEN (IF s[lo] = sep THEN << <<>>, <<>> >> ELSE << <<s[lo]>> >>)
    ELSE JoinPieces(SplitFrom(s, lo, (lo + hi) \div 2, sep),
                    SplitFrom(s, (lo + hi) \div 2 + 1, hi, sep))

\* str.split(sep) for a one-character sep.
Split(s, sep) == SplitFrom(s, 1, Len(s), sep)

\* str.zfill(2)
ZFill2(s) == IF Len(s) = 0 THEN <<"0","0">> ELSE IF Len(s) = 1 THEN <<"0">> \o s ELSE s

RECURSIVE CollapseFrom(_, _)
CollapseFrom(s, i) ==
    IF i > Len(s) THEN <<>>
    ELSE IF s[i] \in WhiteSpace
         THEN IF i > 1 /\ s[i - 1] \in WhiteSpace
              THEN CollapseFrom(s, i + 1)
              ELSE <<" ">> \o CollapseFrom(s, i + 1)
         ELSE <<s[i]>> \o CollapseFrom(s, i + 1)

\* re.sub(r'\s+', ' ', s)
CollapseWs(s) == CollapseFrom(s, 1)

(***************************************************************************)
(* Regular expressions: syntax trees and Python's backtracking matcher     *)
(***************************************************************************)
Cls(chars)  == [t |-> "cls", s |-> chars]
NCls(chars) == [t |-> "ncls", s |-> chars]
Cat(parts)  == [t |-> "cat", a |-> parts]
Alt(parts)  == [t |-> "alt", a |-> parts]
Rep(r, lo, hi)     == [t |-> "rep", r |-> r, lo |-> lo, hi |-> hi, lazy |-> FALSE]
RepLazy(r, lo, hi) == [t |-> "rep", r |-> r, lo |-> lo, hi |-> hi, lazy |-> TRUE]
Grp(k, r)   == [t |-> "grp", k |-> k, r |-> r]
Bol == [t |-> "bol"]
Eol == [t |-> "eol"]
Wb  == [t |-> "wb"]
Lit(str)    == [t |-> "lit", s |-> str]
\* * and + : hi < 0 stands for no upper limit
Star(r) == Rep(r, 0, -1)
Plus(r) == Rep(r, 1, -1)
\* . without re.DOTALL
AnyChar == NCls({"nl"})
Opt(r)  == Rep(r, 0, 1)
\* an alternation of literal words
Words(ws)   == Alt([i \in 1..Len(ws) |-> Lit(ws[i])])

\* A capture is <<first, last + 1>>; <<0, 0>> is a group that took no part.
NoCap == <<0, 0>>
NoCaps == <<NoCap, NoCap, NoCap>>

\* ic: the re.IGNORECASE flag
InClass(c, chars, ic) ==
    IF ic THEN ToLower(c) \in {ToLower(x) : x \in chars} ELSE c \in chars

\* The literal w stands in s at position i.
LitAt(w, s, i, ic) ==
    /\ i + Len(w) - 1 <= Len(s)
    /\ \A k \in 1..Len(w) :
          IF ic THEN ToLower(s[i + k - 1]) = ToLower(w[k]) ELSE s[i + k - 1] = w[k]

IsWordAt(s, i) == i >= 1 /\ i <= Len(s) /\ s[i] \in WordChars

RECURSIVE MatchAt(_, _, _, _, _), MatchCat(_, _, _, _, _, _), CatRest(_, _, _, _, _, _),
          MatchAlt(_, _, _, _, _, _), MatchRep(_, _, _, _, _, _), RepRest(_, _, _, _, _, _, _)

\* Every way r matches s from position i on, as <<end, captures>>, in the
\* order in which a backtracking matcher tries them.
MatchAt(r, s, i, caps, ic) ==
    CASE r.t = "cls"  -> IF i <= Len(s) /\ InClass(s[i], r.s, ic)
                         THEN << <<i + 1, caps>> >> ELSE <<>>
      [] r.t = "ncls" -> IF i <= Len(s) /\ ~InClass(s[i], r.s, ic)
                         THEN << <<i + 1, caps>> >> ELSE <<>>
      [] r.t = "lit"  -> IF LitAt(r.s, s, i, ic)
                         THEN << <<i + Len(r.s), caps>> >> ELSE <<>>
      [] r.t = "cat"  -> MatchCat(r.a, 1, s, i, caps, ic)
      [] r.t = "alt"  -> MatchAlt(r.a, 1, s, i, caps, ic)
      [] r.t = "rep"  -> MatchRep(r, 0, s, i, caps, ic)
      [] r.t = "grp"  -> LET m == MatchAt(r.r, s, i, caps, ic)
                         IN  [j \in 1..Len(m) |->
                                <<m[j][1], [m[j][2] EXCEPT ![r.k] = <<i, m[j][1]>>]>>]
      [] r.t = "bol"  -> IF i = 1 THEN << <<i, caps>> >> ELSE <<>>
      [] r.t = "eol"  -> IF i = Len(s) + 1 THEN << <<i, caps>> >> ELSE <<>>
      [] r.t = "wb"   -> IF IsWordAt(s, i - 1) # IsWordAt(s, i)
                         THEN << <<i, caps>> >> ELSE <<>>

MatchCat(a, j, s, i, caps, ic) ==
    IF j > Len(a) THEN << <<i, caps>> >>
    ELSE CatRest(MatchAt(a[j], s, i, caps, ic), 1, a, j, s, ic)

CatRest(m, k, a, j, s, ic) ==
    IF k > Len(m) THEN <<>>
    ELSE MatchCat(a, j + 1, s, m[k][1], m[k][2], ic) \o CatRest(m, k + 1, a, j, s, ic)

MatchAlt(a, j, s, i, caps, ic) ==
    IF j > Len(a) THEN <<>>
    ELSE MatchAt(a[j], s, i, caps, ic) \o MatchAlt(a, j + 1, s, i, caps, ic)

\* n iterations of r.r are done; greedy tries one more first, lazy stops first.
MatchRep(r, n, s, i, caps, ic) ==
    LET stop == IF n >= r.lo THEN << <<i, caps>> >> ELSE <<>>
        more == IF r.hi < 0 \/ n < r.hi
                THEN RepRest(MatchAt(r.r, s, i, caps, ic), 1, r, n, s, i, ic)
                ELSE <<>>
    IN  IF r.lazy THEN stop \o more ELSE more \o stop

RepRest(m, k, r, n, s, i, ic) ==
    IF k > Len(m) THEN <<>>
    ELSE (IF m[k][1] = i THEN <<>>   \* an empty iteration is not repeated
          ELSE MatchRep(r, n + 1, s, m[k][1], m[k][2], ic))
         \o RepRest(m, k + 1, r, n, s, i, ic)

\* A match object: from (group(0) start), to (its end + 1), caps (groups).
NoMatch == [ok |-> FALSE, from |-> 0, to |-> 0, caps |-> NoCaps]

\* re.match(r, s): the first way r matches at the start of s.
ReMatch(r, s, ic) ==
    LET m == MatchAt(r, s, 1, NoCaps, ic)
    IN  IF m = <<>> THEN NoMatch
        ELSE [ok |-> TRUE, from |-> 1, to |-> m[1][1], caps |-> m[1][2]]

\* The first way r matches at position i of s, as a match object.
MatchObject(m, i) ==
    IF m = <<>> THEN NoMatch
    ELSE [ok |-> TRUE, from |-> i, to |-> m[1][1], caps |-> m[1][2]]

RECURSIVE SearchFrom(_, _, _, _, _), OrElse(_, _, _, _, _, _)
\* The match at the leftmost position of lo..hi where r matches, by halves.
SearchFrom(r, s, lo, hi, ic) ==
    IF lo = hi THEN MatchObject(MatchAt(r, s, lo, NoCaps, ic), lo)
    ELSE OrElse(SearchFrom(r, s, lo, (lo + hi) \div 2, ic), r, s, (lo + hi) \div 2 + 1, hi, ic)

OrElse(left, r, s, lo, hi, ic) ==
    IF left.ok THEN left ELSE SearchFrom(r, s, lo, hi, ic)

\* re.search(r, s): the leftmost match.
ReSearch(r, s, ic) == SearchFrom(r, s, 1, Len(s) + 1, ic)

\* match.group(0)
Group0(s, m) == SubSeq(s, m.from, m.to - 1)

\* match.group(k) is None
GroupIsNone(m, k) == m.caps[k] = NoCap

\* match.group(k), when it is not None
Group(s, m, k) == SubSeq(s, m.caps[k][1], m.caps[k][2] - 1)

(***************************************************************************)
(* Numbers                                                                 *)
(***************************************************************************)
DigitSeq == <<"0","1","2","3","4","5","6","7","8","9">>

DigitVal(c) == (CHOOSE i \in 1..10 : DigitSeq[i] = c) - 1

RECURSIVE StrToInt(_)
\* int(s) for a string of decimal digits
StrToInt(s) ==
    IF s = <<>> THEN 0
    ELSE 10 * StrToInt(SubSeq(s, 1, Len(s) - 1)) + DigitVal(s[Len(s)])

RECURSIVE IntToStr(_)
\* str(n) for n >= 0, as an f-string formats it
IntToStr(n) ==
    IF n < 10 THEN <<DigitSeq[n + 1]>>
    ELSE IntToStr(n \div 10) \o <<DigitSeq[(n % 10) + 1]>>

RECURSIVE Pow10(_)
Pow10(d) == IF d = 0 THEN 1 ELSE 10 * Pow10(d - 1)

\* A float that came from a decimal numeral is kept exactly, as m / 10^d with
\* no trailing zero in the fraction: equal values are equal records.
RECURSIVE Normal(_, _)
Normal(m, d) ==
    IF d <= 0 THEN [m |-> m, d |-> 0]
    ELSE IF m % 10 = 0 THEN Normal(m \div 10, d - 1) ELSE [m |-> m, d |-> d]

\* A numeral of float(): [+-]? (digits [. digits*] | . digits)
IsNumeral(body) ==
    /\ \A i \in 1..Len(body) : body[i] \in Digits \cup {"."}
    /\ Cardinality({i \in 1..Len(body) : body[i] = "."}) <= 1
    /\ \E i \in 1..Len(body) : body[i] \in Digits

\* The value of a numeral whose dot is at position p (Len + 1: no dot).
NumeralValue(body, p) ==
    Normal(StrToInt(SubSeq(body, 1, p - 1) \o SubSeq(body, p + 1, Len(body))), Len(body) - p)

FloatOf(neg, body) ==
    IF IsNumeral(body)
    THEN [ok |-> TRUE,
          v |-> IF neg THEN [m |-> 0 - NumeralValue(body, SetMin({i \in 1..Len(body) : body[i] = "."} \cup {Len(body) + 1})).m,
                             d |-> NumeralValue(body, SetMin({i \in 1..Len(body) : body[i] = "."} \cup {Len(body) + 1})).d]
                ELSE NumeralValue(body, SetMin({i \in 1..Len(body) : body[i] = "."} \cup {Len(body) + 1}))]
    ELSE [ok |-> FALSE, v |-> [m |-> 0, d |-> 0]]

Signed(s) ==
    IF s # <<>> /\ s[1] \in {"+", "-"} THEN FloatOf(s[1] = "-", Tail(s)) ELSE FloatOf(FALSE, s)

\* float(s): [ok |-> FALSE] stands for ValueError.  The strings that reach
\* float() hold digits, dots, a sign and white space only; float() strips
\* the white space at both ends.
ParseFloat(str) == Signed(Strip(str))

\* abs(x)
AbsAmt(x) == [m |-> IF x.m < 0 THEN 0 - x.m ELSE x.m, d |-> x.d]

\* x > 0
Positive(x) == x.m > 0

\* x > 0.01
AboveFloor(x) == x.m * 100 > Pow10(x.d)

(***************************************************************************)
(* OCRService.parse_transactions: patterns and per-line helpers            *)
(***************************************************************************)
\* None; a str that is tested for None is never '' where this model uses it.
None == <<>>

D == Cls(Digits)

\* r'(\d{1,2}\.\d{1,2})'
date_pattern_dot == Grp(1, Cat(<<Rep(D, 1, 2), Cls({"."}), Rep(D, 1, 2)>>))

\* r'(\d{1,2}[/-]\d{1,2}[/-]?\d{0,4})': group 2 of the alternation it is used in
date_pattern_slash ==
    Grp(2, Cat(<<Rep(D, 1, 2), Cls({"/", "-"}), Rep(D, 1, 2), Opt(Cls({"/", "-"})), Rep(D, 0, 4)>>))

\* r'(\d{1,3}(?:\s?\d{3})*[.,]\d{2})'
amount_pattern ==
    Grp(1, Cat(<<Rep(D, 1, 3), Star(Cat(<<Opt(Cls(WhiteSpace)), Rep(D, 3, 3)>>)),
                 Cls({".", ","}), Rep(D, 2, 2)>>))

\* r'([+-]?\d+[.,]\d{2})'
amount_pattern_simple ==
    Grp(1, Cat(<<Opt(Cls({"+", "-"})), Plus(D), Cls({".", ","}), Rep(D, 2, 2)>>))

\* r'(\d{4})'
year_pattern == Grp(1, Rep(D, 4, 4))

\* r'^[|\s\-]+$'
separator_pattern == Cat(<<Bol, Plus(Cls({"|", "-"} \cup WhiteSpace)), Eol>>)

\* r'^\d+\.\d+$'
number_pattern == Cat(<<Bol, Plus(D), Cls({"."}), Plus(D), Eol>>)

HeaderKeywords ==
    <<<<"d","a","t","e"," ","o","p","eacute">>, <<"d","a","t","e"," ","v","a","l","e","u","r">>, <<"l","i","b","e","l","l","eacute">>, <<"d","eacute","b","i","t">>, <<"c","r","eacute","d","i","t">>, <<"t","o","t","a","l">>, <<"s","o","l","d","e">>>>

IgnoredKeywords == <<<<"t","o","t","a","l">>, <<"s","o","l","d","e">>, <<"m","o","n","t","a","n","t">>, <<"d","eacute","b","i","t">>, <<"c","r","eacute","d","i","t">>>>

\* any(keyword in s.lower() for keyword in keywords)
AnyKeywordIn(keywords, s) ==
    \E k \in 1..Len(keywords) : Contains(LowerStr(s), keywords[k])

\* The year of datetime.now(), and datetime.now().strftime('%Y-%m-%d').
ClockYear == 2026

Today == IntToStr(ClockYear) \o <<"-","1","1","-","0","4">>

MinYear == 2020

MaxYear == 2030

\* Lines 247-258 had the text never been searched for a year.
InferYearOfClock(txt) == ClockYear

\* Lines 247-258: the first run of four digits decides, when it is in range.
InferYear(txt) ==
    LET m == ReSearch(year_pattern, txt, FALSE)
        y == StrToInt(Group(txt, m, 1))
    IN  IF m.ok /\ MinYear <= y /\ y <= MaxYear THEN y ELSE ClockYear

\* f"{current_year}-{month.zfill(2)}-{day.zfill(2)}"
FormatDate(year, month, day) ==
    IntToStr(year) \o <<"-">> \o ZFill2(month) \o <<"-">> \o ZFill2(day)

\* Lines 262-272: a blank line, a header line or a line of separators.
IsSkipped(line) ==
    \/ line = <<>>
    \/ AnyKeywordIn(HeaderKeywords, line)
    \/ ReMatch(separator_pattern, line, FALSE).ok

\* [p.strip() for p in line.split('|')]
Parts(line) == LET p == Split(line, "|") IN [i \in 1..Len(p) |-> Strip(p[i])]

NoFields == [date_op |-> None, date_val |-> None, description |-> None]

\* Lines 287-295: one of parts[:3]
DateStep(part, acc) ==
    IF ReMatch(date_pattern_dot, part, FALSE).ok
    THEN IF acc.date_op = None THEN [acc EXCEPT !.date_op = part]
         ELSE IF acc.date_val = None THEN [acc EXCEPT !.date_val = part]
         ELSE acc
    ELSE IF /\ part # <<>>
            /\ ~ReMatch(number_pattern, part, FALSE).ok
            /\ acc.description = None
            /\ Len(part) > 3
         THEN [acc EXCEPT !.description = part]
         ELSE acc

RECURSIVE ScanDates(_, _, _)
\* Lines 286-295, over parts[:3]
ScanDates(parts, i, acc) ==
    IF i > Len(parts) \/ i > 3 THEN acc
    ELSE ScanDates(parts, i + 1, DateStep(parts[i], acc))

\* amount_match.group(1).replace(' ', '').replace(',', '.')
AmountStr(s, m) == Replace(Replace(Group(s, m, 1), <<" ">>, <<>>), <<",">>, <<".">>)

\* debit and credit are <<>> (None) or <<x>>.
NoAmounts == [debit |-> None, credit |-> None]

\* Lines 307-314: the try block
AmountParsed(f, acc) ==
    IF ~f.ok THEN acc
    ELSE IF acc.debit = None /\ Positive(f.v) THEN [acc EXCEPT !.debit = <<f.v>>]
    ELSE IF acc.credit = None /\ Positive(f.v) THEN [acc EXCEPT !.credit = <<f.v>>]
    ELSE acc

\* Lines 304-306
AmountFound(part_clean, amount_match, acc) ==
    IF ~amount_match.ok THEN acc
    ELSE AmountParsed(ParseFloat(AmountStr(part_clean, amount_match)), acc)

\* Lines 301-304
AmountStep(part_clean, acc) ==
    IF part_clean = <<>> \/ part_clean \in {<<"box">>, <<"boxv">>} THEN acc
    ELSE AmountFound(part_clean, ReSearch(amount_pattern, part_clean, FALSE), acc)

RECURSIVE ScanAmounts(_, _, _)
\* Lines 298-314, over parts[3:]
ScanAmounts(parts, i, acc) ==
    IF i > Len(parts) THEN acc
    ELSE ScanAmounts(parts, i + 1,
            AmountStep(Replace(Replace(parts[i], <<" ">>, <<>>), <<"nbsp">>, <<>>), acc))

\* The test of lines 332 and 381 had it been amount > 0: no floor.
AmountPositive(x) == Positive(x)

\* amount > 0.01, the test of lines 332 and 381
AmountOk(x) == AboveFloor(x)

NoTrans == [description |-> <<>>, amount |-> [m |-> 0, d |-> 0], date |-> <<>>]

\* Lines 332-338
TabularAppend(description, amount, formatted_date) ==
    IF AmountOk(amount)
    THEN [kind |-> "emit",
          trans |-> [description |-> Strip(description), amount |-> AbsAmt(amount),
                     date |-> formatted_date]]
    ELSE [kind |-> "none", trans |-> NoTrans]

\* Lines 324-328: day, month = transaction_date.split('.') needs two parts.
TabularDotDate(description, amount, dm, year) ==
    IF Len(dm) # 2 THEN [kind |-> "raise", trans |-> NoTrans]
    ELSE TabularAppend(description, amount, FormatDate(year, dm[2], dm[1]))

\* Lines 322-330
TabularRow(description, amount, transaction_date, year, cur) ==
    IF transaction_date # None /\ ReMatch(date_pattern_dot, transaction_date, FALSE).ok
    THEN TabularDotDate(description, amount, Split(transaction_date, "."), year)
    ELSE TabularAppend(description, amount, IF cur # None THEN cur ELSE Today)

\* Lines 317-320 had line 320 been date_val or date_op or current_date.
TabularFieldsValueFirst(d, a, year, cur) ==
    IF d.description # None /\ (a.debit # None \/ a.credit # None)
    THEN TabularRow(d.description,
                    IF a.debit # None THEN a.debit[1] ELSE a.credit[1],
                    IF d.date_val # None THEN d.date_val
                    ELSE IF d.date_op # None THEN d.date_op ELSE cur,
                    year, cur)
    ELSE [kind |-> "none", trans |-> NoTrans]

\* Lines 317-320
TabularFields(d, a, year, cur) ==
    IF d.description # None /\ (a.debit # None \/ a.credit # None)
    THEN TabularRow(d.description,
                    IF a.debit # None THEN a.debit[1] ELSE a.credit[1],
                    IF d.date_op # None THEN d.date_op
                    ELSE IF d.date_val # None THEN d.date_val ELSE cur,
                    year, cur)
    ELSE [kind |-> "none", trans |-> NoTrans]

\* Line 341
DateSearch(line) == ReSearch(Alt(<<date_pattern_dot, date_pattern_slash>>), line, FALSE)

\* Lines 346-351, for a date_str that holds a dot
DotDate(dm, year) == FormatDate(year, dm[2], dm[1])

\* Lines 343-353
DateOfStr(date_str, year, cur) ==
    IF date_str = <<>> THEN cur
    ELSE IF Contains(date_str, <<".">>) THEN DotDate(Split(date_str, "."), year)
    ELSE date_str

\* Lines 341-353: the carried-forward date after the line's date search.
FreeFormDate(line, date_match, year, cur) ==
    IF date_match.ok /\ ~GroupIsNone(date_match, 1)
    THEN DateOfStr(Group(line, date_match, 1), year, cur)
    ELSE cur

\* Lines 356-358
AmountSearch(line) ==
    IF ReSearch(amount_pattern, line, FALSE).ok
    THEN ReSearch(amount_pattern, line, FALSE)
    ELSE ReSearch(amount_pattern_simple, line, FALSE)

\* Line 373
CleanDescription(s) == Strip(StripChars(StripChars(StripChars(s, {"|"}), {"box"}), {"boxv"}))

\* Lines 366-368
WithoutDate(line, date_match) ==
    IF date_match.ok THEN Strip(Replace(line, Group0(line, date_match), <<>>)) ELSE line

\* Lines 365-373: the line without its date and amount tokens, cleaned.
FreeFormDescription(line, date_match, amount_match) ==
    CleanDescription(CollapseWs(Strip(
        Replace(WithoutDate(line, date_match), Group0(line, amount_match), <<>>))))

\* Lines 376-387
FreeFormAppend(description, amount, transaction_date) ==
    IF /\ Len(description) >= 3
       /\ ~AnyKeywordIn(IgnoredKeywords, description)
       /\ AmountOk(AbsAmt(amount))
    THEN <<[description |-> description, amount |-> AbsAmt(amount), date |-> transaction_date]>>
    ELSE <<>>

\* Lines 360-389
FreeFormAmount(amount_match, f, description, transaction_date) ==
    IF amount_match.ok /\ f.ok
    THEN FreeFormAppend(description, f.v, transaction_date)
    ELSE <<>>

\* trans['description'][:50]
DescKeyLen == 50

\* The key of line 395 had it held the whole description.
KeyWholeDescription(trans) == <<trans.description, trans.amount, trans.date>>

\* Line 395: (trans['description'][:50], trans['amount'], trans['date'])
Key(trans) ==
    <<SubSeq(trans.description, 1, IF Len(trans.description) < DescKeyLen
                                   THEN Len(trans.description) ELSE DescKeyLen),
      trans.amount, trans.date>>

RECURSIVE DedupFrom(_, _, _)
\* Lines 392-398
DedupFrom(trans, i, seen) ==
    IF i > Len(trans) THEN <<>>
    ELSE IF Key(trans[i]) \in seen
         THEN DedupFrom(trans, i + 1, seen)
         ELSE <<trans[i]>> \o DedupFrom(trans, i + 1, seen \cup {Key(trans[i])})

\* Lines 391-400 had they returned the raw list.
DedupNothing(trans) == trans

\* Lines 391-400
Dedup(trans) == DedupFrom(trans, 1, {})

(***************************************************************************)
(* State.  Every call of parse_transactions has its own locals: the model  *)
(* keeps them per call, so that several calls can be in progress on the    *)
(* one service instance.                                                   *)
(***************************************************************************)
VARIABLES
    text,           \* call -> the argument of the call
    pc,             \* call -> "start", "loop", "done" or "raised"
    lines,          \* call -> the lines the for loop has still to visit
    current_year,   \* call -> the local current_year
    current_date,   \* call -> the local current_date (None or a date)
    transactions,   \* call -> the local list transactions
    result          \* call -> the returned list unique_transactions

parseVars == <<text, pc, lines, current_year, current_date, transactions, result>>

\* CategorizationService.categorize, one call
VARIABLES
    description,    \* the argument of the call
    cat_pc,         \* "start", "patterns", "keywords", "special" or "done"
    cat_index,      \* the position of the for loop in progress in its order
    category        \* the returned label (None before the return)

catVars == <<description, cat_pc, cat_index, category>>

\* NotificationParser.parse_sms, one call
VARIABLES
    sms_text,       \* the argument sms_text, then the local of line 48
    sms_date,       \* the argument sms_date (None or a date)
    sms_pc,         \* "start", "try" or "done"
    attempt,        \* the position of the two for loops among all the patterns
    sms_result      \* the returned value (None or a candidate)

\* NotificationParser.parse_email, one call
VARIABLES
    email_subject,  \* the argument email_subject
    email_body,     \* the argument email_body
    email_date      \* the argument email_date (None or a date)

emailVars == <<email_subject, email_body, email_date>>

smsVars == <<sms_text, sms_date, sms_pc, attempt, sms_result, emailVars>>

\* The table budgets of the database
VARIABLES
    budgets,        \* the rows, in the order of their insertion
    next_id         \* the id the next inserted row gets

budgetVars == <<budgets, next_id>>

vars == <<parseVars, catVars, smsVars, budgetVars>>

\* The lines a document is made of.
Corpus == <<
    <<"1","0",".","1","0",".","2","0","2","4","|","x","|","L","o","y","e","r","|","7","9",",","0","0">>,
    <<"1",".","5"," ","m","a","i","|","x","|","L","o","y","e","r","|","7","9",",","0","0">>,
    <<"0","5",".","0","3"," ","L","o","y","e","r"," ","a","p","p","a","r","t","e","m","e","n","t"," ","8","5","0",",","0","0">>,
    <<"L","o","y","e","r"," ","8","5","0",",","0","0">>,
    <<"L","o","y","e","r"," ","8","5","0",",","0","0"," "," ">>,
    <<"x","|","y","|","C","a","f","e","|","2",",","0","0">>,
    <<"x","|","y","|","C","a","f","e","|","0",",","0","1">>,
    <<"V","i","r","e","m","e","n","t"," ","p","e","r","m","a","n","e","n","t"," ","v","e","r","s"," ","l","e"," ","c","o","m","p","t","e"," ","e","p","a","r","g","n","e"," ","d","e"," ","P","a","u","l"," ","A"," ","1",",","0","0">>,
    <<"V","i","r","e","m","e","n","t"," ","p","e","r","m","a","n","e","n","t"," ","v","e","r","s"," ","l","e"," ","c","o","m","p","t","e"," ","e","p","a","r","g","n","e"," ","d","e"," ","P","a","u","l"," ","B"," ","1",",","0","0">>,
    <<"1","0",".","1","0"," ","|"," ","1","0",".","1","0"," ","|"," ","V","i","r","e","m","e","n","t"," ","V","i","r"," ","I","n","s","t"," ","v","e","r","s"," ","w","a","l","i","d"," ","l","c","l"," ","|"," ","7","9",",","0","0"," ","|"," ","|"," ","box">>,
    <<"R","e","l","e","v","e"," ","2","0","2","4">>,
    <<"R","e","f"," ","1","2","3","4">>,
    <<"1","0",".","1","0","|","1","1",".","1","0","|","C","a","f","e"," ","d","u"," ","c","o","i","n","|","2",",","0","0">>,
    <<"0","6","/","0","3"," ","C","o","u","r","s","e","s"," ","2","0",",","0","0">>,
    <<"M","o","n","t","a","n","t"," ","l","o","y","e","r"," ","8","5","0",",","0","0">>,
    <<"0","5",".","0","3"," ","L","o","y","e","r"," ","a","p","p","a","r","t","e","m","e","n","t">>,
    <<"S","o","l","d","e"," ","1","2",",","0","0">>,
    <<"-","-","-","|","-","-","-">>,
    <<" "," ">> >>

\* The lines the documents of one call are made of: the rows and the
\* free-form lines.
ParseLines == 1..9

\* The longest document, in lines.
MaxLines == 3

RECURSIVE JoinLines(_)
JoinLines(ls) ==
    IF Len(ls) = 0 THEN <<>>
    ELSE IF Len(ls) = 1 THEN ls[1]
    ELSE ls[1] \o <<"nl">> \o JoinLines(Tail(ls))

\* The documents made of at most n lines of the corpus, the lines taken
\* among those numbered in from.
DocumentsOf(from, n) ==
    {JoinLines([i \in 1..Len(f) |-> Corpus[f[i]]]) : f \in UNION {[1..k -> from] : k \in 0..n}}

Documents == DocumentsOf(ParseLines, MaxLines)

\* What the loop body computes from the line alone, before it looks at the
\* year and the carried-forward date: lines 262-272 (skipped), 276-315 (the
\* fields of a row of four parts or more), 341 (date_match), 356-363
\* (amount_match and float(amount_str)) and 365-373 (description).
LineFacts(line) ==
    [skipped      |-> IsSkipped(line),
     row          |-> Len(Parts(line)) >= 4,
     d            |-> IF Len(Parts(line)) >= 4
                      THEN ScanDates(Parts(line), 1, NoFields) ELSE NoFields,
     a            |-> IF Len(Parts(line)) >= 4
                      THEN ScanAmounts(Parts(line), 4, NoAmounts) ELSE NoAmounts,
     date_match   |-> DateSearch(line),
     amount_match |-> AmountSearch(line),
     f            |-> ParseFloat(AmountStr(line, AmountSearch(line))),
     description  |-> FreeFormDescription(line, DateSearch(line), AmountSearch(line))]

\* The facts of every line a document can hold (the empty document has one
\* empty line), computed once.
FactsTable == [l \in {Strip(Corpus[i]) : i \in 1..Len(Corpus)} \cup {<<>>} |-> LineFacts(l)]

Facts(line) == FactsTable[line]

\* Lines 276-338 on one line: kind is "emit" (a candidate is appended and the
\* loop continues), "raise" (the unpacking of line 324 raises ValueError) or
\* "none" (the line goes on to the free-form part).
TabularOf(i, year, cur) ==
    IF i.row THEN TabularFields(i.d, i.a, year, cur)
    ELSE [kind |-> "none", trans |-> NoTrans]

Tabular(line, year, cur) == TabularOf(Facts(line), year, cur)

FreeFormWith(i, cur1) ==
    [cur |-> cur1,
     emit |-> FreeFormAmount(i.amount_match, i.f, i.description,
                             IF cur1 # None THEN cur1 ELSE Today)]

FreeFormOf(line, i, year, cur) ==
    FreeFormWith(i, FreeFormDate(line, i.date_match, year, cur))

\* Lines 341-389 on one line: the carried-forward date it leaves (cur) and
\* the candidates, none or one, it appends (emit).
FreeForm(line, year, cur) == FreeFormOf(line, Facts(line), year, cur)

\* Lines 238-258
ParseStart(c) ==
    /\ pc[c] = "start"
    /\ lines' = [lines EXCEPT ![c] = Split(text[c], "nl")]
    /\ current_year' = [current_year EXCEPT ![c] = InferYear(text[c])]
    /\ current_date' = [current_date EXCEPT ![c] = None]
    /\ transactions' = [transactions EXCEPT ![c] = <<>>]
    /\ pc' = [pc EXCEPT ![c] = "loop"]
    /\ UNCHANGED <<text, result>>
    /\ UNCHANGED <<catVars, smsVars, budgetVars>>

\* line = line.strip() of the line the loop is at
Line(c) == Strip(Head(lines[c]))

\* current_date had it been an attribute of the service instance, which the
\* first call in progress owns and every call reads.
CarriedDateOfInstance(c) == current_date[1]

\* The local current_date of call c, as the loop body reads it.
CarriedDate(c) == current_date[c]


\* Lines 262-272 had the skipped line also cleared current_date.
SkipLineForgetsDate(c) ==
    /\ pc[c] = "loop" /\ lines[c] # <<>>
    /\ Facts(Line(c)).skipped
    /\ lines' = [lines EXCEPT ![c] = Tail(lines[c])]
    /\ current_date' = [current_date EXCEPT ![c] = None]
    /\ UNCHANGED <<text, pc, current_year, transactions, result>>
    /\ UNCHANGED <<catVars, smsVars, budgetVars>>

\* Lines 260-272: the line is skipped.
SkipLine(c) ==
    /\ pc[c] = "loop" /\ lines[c] # <<>>
    /\ Facts(Line(c)).skipped
    /\ lines' = [lines EXCEPT ![c] = Tail(lines[c])]
    /\ UNCHANGED <<text, pc, current_year, current_date, transactions, result>>
    /\ UNCHANGED <<catVars, smsVars, budgetVars>>

\* Lines 276-389 had line 338 not continued: the row goes on to the
\* free-form part after its candidate is appended.
TabularEmitThenFreeForm(c) ==
    /\ pc[c] = "loop" /\ lines[c] # <<>>
    /\ ~Facts(Line(c)).skipped
    /\ Tabular(Line(c), current_year[c], CarriedDate(c)).kind = "emit"
    /\ current_date' = [current_date EXCEPT ![c] =
            FreeForm(Line(c), current_year[c], CarriedDate(c)).cur]
    /\ transactions' = [transactions EXCEPT ![c] =
            Append(transactions[c], Tabular(Line(c), current_year[c], CarriedDate(c)).trans)
            \o FreeForm(Line(c), current_year[c], CarriedDate(c)).emit]
    /\ lines' = [lines EXCEPT ![c] = Tail(lines[c])]
    /\ UNCHANGED <<text, pc, current_year, result>>
    /\ UNCHANGED <<catVars, smsVars, budgetVars>>

\* Lines 276-338: the tabular part appends a candidate and continues.
TabularEmit(c) ==
    /\ pc[c] = "loop" /\ lines[c] # <<>>
    /\ ~Facts(Line(c)).skipped
    /\ Tabular(Line(c), current_year[c], CarriedDate(c)).kind = "emit"
    /\ transactions' = [transactions EXCEPT ![c] =
            Append(transactions[c], Tabular(Line(c), current_year[c], CarriedDate(c)).trans)]
    /\ lines' = [lines EXCEPT ![c] = Tail(lines[c])]
    /\ UNCHANGED <<text, pc, current_year, current_date, result>>
    /\ UNCHANGED <<catVars, smsVars, budgetVars>>

\* Line 324: day, month = transaction_date.split('.') raises ValueError, which
\* nothing in parse_transactions catches: the call ends with the exception.
TabularRaise(c) ==
    /\ pc[c] = "loop" /\ lines[c] # <<>>
    /\ ~Facts(Line(c)).skipped
    /\ Tabular(Line(c), current_year[c], CarriedDate(c)).kind = "raise"
    /\ pc' = [pc EXCEPT ![c] = "raised"]
    /\ UNCHANGED <<text, lines, current_year, current_date, transactions, result>>
    /\ UNCHANGED <<catVars, smsVars, budgetVars>>

\* Lines 340-389: the free-form part, for a line the tabular part left.
FreeFormLine(c) ==
    /\ pc[c] = "loop" /\ lines[c] # <<>>
    /\ ~Facts(Line(c)).skipped
    /\ Tabular(Line(c), current_year[c], CarriedDate(c)).kind = "none"
    /\ current_date' = [current_date EXCEPT ![c] =
            FreeForm(Line(c), current_year[c], CarriedDate(c)).cur]
    /\ transactions' = [transactions EXCEPT ![c] =
            transactions[c] \o FreeForm(Line(c), current_year[c], CarriedDate(c)).emit]
    /\ lines' = [lines EXCEPT ![c] = Tail(lines[c])]
    /\ UNCHANGED <<text, pc, current_year, result>>
    /\ UNCHANGED <<catVars, smsVars, budgetVars>>

\* Lines 391-400: the loop is over; deduplicate and return.
Return(c) ==
    /\ pc[c] = "loop" /\ lines[c] = <<>>
    /\ result' = [result EXCEPT ![c] = Dedup(transactions[c])]
    /\ pc' = [pc EXCEPT ![c] = "done"]
    /\ UNCHANGED <<text, lines, current_year, current_date, transactions>>
    /\ UNCHANGED <<catVars, smsVars, budgetVars>>

\* The calls in progress start with the locals of a call not yet begun.
InitCalls(calls, docs) ==
    /\ text \in [calls -> docs]
    /\ pc = [c \in calls |-> "start"]
    /\ lines = [c \in calls |-> <<>>]
    /\ current_year = [c \in calls |-> ClockYear]
    /\ current_date = [c \in calls |-> None]
    /\ transactions = [c \in calls |-> <<>>]
    /\ result = [c \in calls |-> <<>>]

\* No call of categorize, no call of parse_sms.
CatIdle == description = <<>> /\ cat_pc = "idle" /\ cat_index = 0 /\ category = None

\* No call of parse_email.
EmailIdle == email_subject = <<>> /\ email_body = <<>> /\ email_date = None

SmsIdle ==
    /\ sms_text = <<>> /\ sms_date = None /\ sms_pc = "idle" /\ attempt = 0 /\ sms_result = None
    /\ EmailIdle

\* The table budgets is empty and nothing is done to it.
BudgetIdle == budgets = <<>> /\ next_id = 1

\* One call of parse_transactions on any document.
InitParse == InitCalls({1}, Documents) /\ CatIdle /\ SmsIdle /\ BudgetIdle

NextParse ==
    \/ ParseStart(1)
    \/ SkipLine(1)
    \/ TabularEmit(1)
    \/ TabularRaise(1)
    \/ FreeFormLine(1)
    \/ Return(1)

SpecParse == InitParse /\ [][NextParse]_vars

\* Two calls on the same service instance, their steps interleaved in any
\* order (one after the other included).  The documents are made of the
\* row that raises, the dated free-form line and the undated row.
ConcLines == {1, 3, 6}

MaxConcLines == 2

InitConc == InitCalls({1, 2}, DocumentsOf(ConcLines, MaxConcLines)) /\ CatIdle /\ SmsIdle /\ BudgetIdle

NextConc ==
    \/ \E c \in {1, 2} : ParseStart(c)
    \/ \E c \in {1, 2} : SkipLine(c)
    \/ \E c \in {1, 2} : TabularEmit(c)
    \/ \E c \in {1, 2} : TabularRaise(c)
    \/ \E c \in {1, 2} : FreeFormLine(c)
    \/ \E c \in {1, 2} : Return(c)

SpecConc == InitConc /\ [][NextConc]_vars

\* One call on the documents of the scenarios: the row that raises, the
\* free-form line of scenario E, the row of scenario A, a line that holds
\* the year 2024 and a line that holds another run of four digits.
ScenarioLines == {1, 3, 10, 11, 12}

InitScenario == InitCalls({1}, DocumentsOf(ScenarioLines, MaxLines)) /\ CatIdle /\ SmsIdle /\ BudgetIdle

SpecScenario == InitScenario /\ [][NextParse]_vars

\* One call on the documents of the free-form rules: the row that raises,
\* the dated free-form line, the undated row, a row with an operation date
\* and a value date, a free-form line with a DD/MM date, one whose
\* description holds 'montant', one with a DD.MM date and no amount.
FreeFormLines == {1, 3, 6, 13, 14, 15, 16}

InitFreeForm == InitCalls({1}, DocumentsOf(FreeFormLines, MaxLines)) /\ CatIdle /\ SmsIdle /\ BudgetIdle

SpecFreeForm == InitFreeForm /\ [][NextParse]_vars

\* One call on the documents of the skipped lines: the row that raises, the
\* dated free-form line, the undated free-form line, the undated row, a
\* header line, a line of separators, a blank line.
SkippedLines == {1, 3, 4, 6, 17, 18, 19}

InitSkipped == InitCalls({1}, DocumentsOf(SkippedLines, MaxLines)) /\ CatIdle /\ SmsIdle /\ BudgetIdle

SpecSkipped == InitSkipped /\ [][NextParse]_vars

(***************************************************************************)
(* The call made alone: parse_transactions run from its first line to its  *)
(* return with nothing else going on.  raised: the call ended with line    *)
(* 324's ValueError; out: the list it returned.                            *)
(***************************************************************************)
RECURSIVE RunLines(_, _, _, _)
RunLines(ls, year, cur, acc) ==
    IF ls = <<>> THEN [raised |-> FALSE, out |-> Dedup(acc)]
    ELSE IF Facts(Strip(Head(ls))).skipped THEN RunLines(Tail(ls), year, cur, acc)
    ELSE IF Tabular(Strip(Head(ls)), year, cur).kind = "raise" THEN [raised |-> TRUE, out |-> <<>>]
    ELSE IF Tabular(Strip(Head(ls)), year, cur).kind = "emit"
         THEN RunLines(Tail(ls), year, cur, Append(acc, Tabular(Strip(Head(ls)), year, cur).trans))
    ELSE RunLines(Tail(ls), year, FreeForm(Strip(Head(ls)), year, cur).cur,
                  acc \o FreeForm(Strip(Head(ls)), year, cur).emit)

ParseAlone(txt) == RunLines(Split(txt, "nl"), InferYear(txt), None, <<>>)

\* The loop replayed line by line on the lines ls: for each line, the
\* carried-forward date the body starts with (cur) and the candidates, none
\* or one, the body appends (emit).  The replay stops at a line that raises.
RECURSIVE LineTrace(_, _, _)
LineTrace(ls, year, cur) ==
    IF ls = <<>> THEN <<>>
    ELSE IF Facts(Strip(Head(ls))).skipped
         THEN <<[cur |-> cur, emit |-> <<>>]>> \o LineTrace(Tail(ls), year, cur)
    ELSE IF Tabular(Strip(Head(ls)), year, cur).kind = "raise" THEN <<>>
    ELSE IF Tabular(Strip(Head(ls)), year, cur).kind = "emit"
         THEN <<[cur |-> cur, emit |-> <<Tabular(Strip(Head(ls)), year, cur).trans>>]>>
              \o LineTrace(Tail(ls), year, cur)
    ELSE <<[cur |-> cur, emit |-> FreeForm(Strip(Head(ls)), year, cur).emit]>>
         \o LineTrace(Tail(ls), year, FreeForm(Strip(Head(ls)), year, cur).cur)

TraceOf(txt) == LineTrace(Split(txt, "nl"), InferYear(txt), None)

(***************************************************************************)
(* Properties of parse_transactions.                                       *)
(***************************************************************************)
Calls == DOMAIN pc

Returned(c) == pc[c] = "done"

Doc(ls) == JoinLines(ls)

\* C1: parse_transactions never raises, whatever the text: no call ever
\* ends with an exception.
C1_NeverRaises == \A c \in Calls : pc[c] # "raised"

\* C3: every candidate parse_transactions returns, from a tabular row or
\* from a free-form line, has an amount strictly above 0.01.
C3_AmountFloor ==
    \A c \in Calls : Returned(c) =>
        \A i \in 1..Len(result[c]) :
            result[c][i].amount.m * 100 > Pow10(result[c][i].amount.d)

\* A row and a free-form reading of 0,01 were dropped and the row of 2,00
\* next to them was returned.
C3_Witness ==
    /\ Returned(1)
    /\ text[1] = Doc(<<Corpus[7], Corpus[6]>>)
    /\ Len(result[1]) = 1
    /\ result[1][1].amount = [m |-> 2, d |-> 0]

\* YYYY-MM-DD: four digits, '-', two digits, '-', two digits
IsIsoDate(s) ==
    /\ Len(s) = 10
    /\ \A i \in {1, 2, 3, 4, 6, 7, 9, 10} : s[i] \in Digits
    /\ s[5] = "-" /\ s[8] = "-"

\* C5: every candidate parse_transactions returns has a date of the form
\* YYYY-MM-DD, whichever source the date came from.
C5_DatesWellFormed ==
    \A c \in Calls : Returned(c) =>
        \A i \in 1..Len(result[c]) : IsIsoDate(result[c][i].date)

\* The key the specification gives: the first 50 characters of the
\* description, the amount, the date.
SpecKey(t) ==
    <<[i \in 1..(IF Len(t.description) < 50 THEN Len(t.description) ELSE 50) |-> t.description[i]],
      t.amount, t.date>>

\* The candidates of raw that are the first of their key, in raw's order.
RECURSIVE FirstOccurrences(_, _)
FirstOccurrences(raw, i) ==
    IF i > Len(raw) THEN <<>>
    ELSE IF \E j \in 1..(i - 1) : SpecKey(raw[j]) = SpecKey(raw[i])
         THEN FirstOccurrences(raw, i + 1)
         ELSE <<raw[i]>> \o FirstOccurrences(raw, i + 1)

\* C6: the returned sequence has no two candidates with the same key, and
\* it is the raw candidate list reduced to the first occurrence of each key,
\* in the order of those first occurrences.
C6_FirstOccurrenceOfEachKey ==
    \A c \in Calls : Returned(c) =>
        /\ result[c] = FirstOccurrences(transactions[c], 1)
        /\ \A i, j \in 1..Len(result[c]) :
               SpecKey(result[c][i]) = SpecKey(result[c][j]) => i = j

\* Two candidates whose descriptions differ after their 50th character
\* only: the second was dropped.
C6_Witness ==
    /\ Returned(1)
    /\ Len(transactions[1]) = 2
    /\ transactions[1][1].description # transactions[1][2].description
    /\ result[1] = <<transactions[1][1]>>

RECURSIVE RStrip(_)
RStrip(s) ==
    IF s # <<>> /\ s[Len(s)] \in WhiteSpace THEN RStrip(SubSeq(s, 1, Len(s) - 1)) ELSE s

\* The candidates of out that the lines i and j of the trace tr produced.
CandidatesOf(out, tr, i, j) ==
    {k \in 1..Len(out) : out[k] \in Range(tr[i].emit) \cup Range(tr[j].emit)}

\* The line is given a date of its own: the date field of a row that the
\* tabular part accepts, or else the DD.MM token of the line.
CarriesOwnDate(line) ==
    IF Tabular(line, ClockYear, None).kind = "emit"
    THEN Facts(line).d.date_op # None
    ELSE Facts(line).date_match.ok /\ ~GroupIsNone(Facts(line).date_match, 1)

\* In the returned call c, every line that occurs twice (up to trailing
\* white space) and gives a candidate, and whose two occurrences satisfy
\* Same, has no more than one candidate in the output (none when an earlier
\* candidate of the same key stands for it).
OneCandidateWhere(c, Same(_, _, _)) ==
    LET ls == Split(text[c], "nl")
        tr == TraceOf(text[c])
    IN  \A i, j \in 1..Len(ls) :
            (/\ i < j
             /\ RStrip(ls[i]) = RStrip(ls[j])
             /\ tr[i].emit # <<>>
             /\ Same(tr, i, j))
            => Cardinality(CandidatesOf(result[c], tr, i, j)) <= 1

AnyTwo(tr, i, j) == TRUE

SameCarriedDate(tr, i, j) == tr[i].cur = tr[j].cur

C8_AsTheCallAlone ==
    \A c \in Calls :
        /\ Returned(c) =>
              /\ ~ParseAlone(text[c]).raised
              /\ result[c] = ParseAlone(text[c]).out
        /\ pc[c] = "raised" => ParseAlone(text[c]).raised

\* Call 2 has returned its undated row with today's date while call 1, still
\* in its loop, has a carried-forward date of its own.
C8_Witness ==
    /\ Returned(2)
    /\ pc[1] = "loop" /\ current_date[1] # None /\ lines[1] # <<>>
    /\ text[2] = Corpus[6]
    /\ text[1] = Doc(<<Corpus[3], Corpus[6]>>)
    /\ Len(result[2]) = 1 /\ result[2][1].date = Today

\* Four digits stand at position i of txt.
FourDigitsAt(txt, i) ==
    i + 3 <= Len(txt) /\ \A k \in i..(i + 3) : txt[k] \in Digits

\* txt holds the number y as a number of four digits, no digit next to it.
HoldsNumber(txt, y) ==
    \E i \in 1..Len(txt) :
        /\ StartsAt(txt, i, IntToStr(y))
        /\ (i = 1 \/ txt[i - 1] \notin Digits)
        /\ (i + 4 > Len(txt) \/ txt[i + 4] \notin Digits)

\* C12: once the year is inferred, it is a number of four digits in
\* [2020, 2030] that the text holds, wherever it is, when the text holds
\* one, and the year of the clock only when the text holds none.
C12_YearFoundAnywhere ==
    \A c \in Calls : pc[c] # "start" =>
        IF \E y \in MinYear..MaxYear : HoldsNumber(text[c], y)
        THEN current_year[c] \in MinYear..MaxYear /\ HoldsNumber(text[c], current_year[c])
        ELSE current_year[c] = ClockYear

\* The candidate of scenario A.
ScenarioA ==
    [description |-> <<"V","i","r","e","m","e","n","t"," ","V","i","r"," ","I","n","s","t"," ","v","e","r","s"," ","w","a","l","i","d"," ","l","c","l">>,
     amount |-> [m |-> 79, d |-> 0],
     date |-> <<"2","0","2","4","-","1","0","-","1","0">>]

\* tok is in txt and no four digits stand before it.
IsFirstFourDigits(txt, tok) ==
    \E i \in 1..Len(txt) :
        /\ StartsAt(txt, i, tok)
        /\ \A j \in 1..(i - 1) : ~FourDigitsAt(txt, j)

C14_ScenarioE ==
    \A c \in Calls :
        (Returned(c) /\ text[c] = Corpus[3]) =>
            result[c] = <<[description |-> <<"L","o","y","e","r"," ","a","p","p","a","r","t","e","m","e","n","t">>,
                           amount |-> [m |-> 850, d |-> 0],
                           date |-> FormatDate(ClockYear, <<"0","3">>, <<"0","5">>)]>>

\* Call c takes a step of its loop over the line at the head of lines[c].
LineStep(c) == pc[c] = "loop" /\ lines[c] # <<>> /\ lines'[c] = Tail(lines[c])

\* The candidates the step appends to transactions[c].
Appended(c) ==
    SubSeq(transactions'[c], Len(transactions[c]) + 1, Len(transactions'[c]))

\* The tabular part accepts the line call c is at.
RowAccepted(c) ==
    /\ ~Facts(Line(c)).skipped
    /\ Len(Parts(Line(c))) >= 4
    /\ Tabular(Line(c), current_year[c], current_date[c]).kind = "emit"

\* C23: a line adds at most one raw candidate; a line the tabular part
\* accepts adds the candidate of the row and nothing of the free-form part
\* (no second candidate, no new carried-forward date).
C23_OneCandidatePerLine ==
    [][\A c \in Calls : LineStep(c) =>
            /\ Len(transactions'[c]) <= Len(transactions[c]) + 1
            /\ SubSeq(transactions'[c], 1, Len(transactions[c])) = transactions[c]
            /\ RowAccepted(c) =>
                   /\ Appended(c) = <<Tabular(Line(c), current_year[c], current_date[c]).trans>>
                   /\ current_date'[c] = current_date[c]]_vars

\* The row 'x|y|Cafe|2,00', which the free-form part would read as a
\* candidate too, gave one candidate.
C23_Witness ==
    /\ Returned(1)
    /\ text[1] = Corpus[6]
    /\ Len(transactions[1]) = 1
    /\ FreeForm(Strip(Corpus[6]), ClockYear, None).emit # <<>>

\* The fields among the first three of a row that begin with a DD.MM token.
DateFields(line) ==
    SelectSeq(SubSeq(Parts(line), 1, IF Len(Parts(line)) < 3 THEN Len(Parts(line)) ELSE 3),
              LAMBDA part : ReMatch(date_pattern_dot, part, FALSE).ok)

\* A DD.MM field resolved with the year: year-month-day, the day and the
\* month being what stands before and after the dot.
Resolved(field, year) == FormatDate(year, Split(field, ".")[2], Split(field, ".")[1])

\* The operation date, else the value date, else the carried-forward date,
\* else today.
PreferredDate(fields, year, cur) ==
    IF Len(fields) >= 1 THEN Resolved(fields[1], year)
    ELSE IF Len(fields) >= 2 THEN Resolved(fields[2], year)
    ELSE IF cur # None THEN cur
    ELSE Today

\* C24: the date of a candidate emitted by the tabular part is the operation
\* date (the first DD.MM field among the first three) resolved with the
\* inferred year, else the value date, else the carried-forward date, else
\* today.
C24_TabularDatePreference ==
    [][\A c \in Calls : (LineStep(c) /\ RowAccepted(c)) =>
            /\ Appended(c) # <<>>
            /\ Appended(c)[1].date =
                   PreferredDate(DateFields(Line(c)), current_year[c], current_date[c])]_vars

\* A row with two different dates, a dated free-form line and a row without
\* a date: the first row has its operation date, the last the date carried
\* forward from the line before it.
C24_Witness ==
    /\ Returned(1)
    /\ text[1] = JoinLines(<<Corpus[13], Corpus[3], Corpus[6]>>)
    /\ Len(transactions[1]) = 3
    /\ transactions[1][1].date = <<"2","0","2","6","-","1","0","-","1","0">>
    /\ transactions[1][2].date = <<"2","0","2","6","-","0","3","-","0","5">>
    /\ transactions[1][3].date = <<"2","0","2","6","-","0","3","-","0","5">>

\* Call c takes the line it is at through the free-form part.
FreeFormStep(c) ==
    /\ LineStep(c)
    /\ ~Facts(Line(c)).skipped
    /\ Tabular(Line(c), current_year[c], current_date[c]).kind = "none"

\* A date token of either form as year-month-day: the day and the month are
\* its first two numbers, the year its third or else the inferred year.
TokenNumbers(token) == Split(Replace(Replace(token, <<".">>, <<"/">>), <<"-">>, <<"/">>), "/")

Normalized(token, year) ==
    (IF Len(TokenNumbers(token)) >= 3 /\ TokenNumbers(token)[3] # <<>>
     THEN TokenNumbers(token)[3] ELSE IntToStr(year))
    \o <<"-">> \o ZFill2(TokenNumbers(token)[2])
    \o <<"-">> \o ZFill2(TokenNumbers(token)[1])

\* C25: a free-form line that holds a date token, DD.MM or DD/MM[/YYYY] or
\* DD-MM[-YYYY], has the token normalized to YYYY-MM-DD as the date of its
\* candidate and as the carried-forward date of the lines after it.
C25_FreeFormDateOfLine ==
    [][\A c \in Calls : (FreeFormStep(c) /\ Facts(Line(c)).date_match.ok) =>
            /\ current_date'[c] =
                   Normalized(Group0(Line(c), Facts(Line(c)).date_match), current_year[c])
            /\ Appended(c) # <<>> => Appended(c)[1].date = current_date'[c]]_vars

\* The free-form line of call c holds an amount above the floor.
ValidAmount(c) ==
    /\ Facts(Line(c)).amount_match.ok
    /\ Facts(Line(c)).f.ok
    /\ AmountOk(AbsAmt(Facts(Line(c)).f.v))

\* The description is one of the tokens total, solde, montant, debit, credit.
IsIgnoredKeyword(cleaned) ==
    \E k \in 1..Len(IgnoredKeywords) : LowerStr(cleaned) = IgnoredKeywords[k]

\* C26: a free-form line with a valid amount is rejected exactly when its
\* cleaned description is shorter than 3 characters or is itself one of the
\* blacklist tokens; a longer description that contains one is emitted.
C26_RejectedExactlyWhen ==
    [][\A c \in Calls : (FreeFormStep(c) /\ ValidAmount(c)) =>
            (Appended(c) = <<>> <=>
                \/ Len(Facts(Line(c)).description) < 3
                \/ IsIgnoredKeyword(Facts(Line(c)).description))]_vars

\* The matches m and n cover no character in common.
Apart(m, n) == m.to <= n.from \/ n.to <= m.from

\* C29: the digits of the date token of a free-form line are never taken as
\* the amount: a line that gives a candidate has its amount token apart from
\* its date token.
C29_DateNotTakenAsAmount ==
    [][\A c \in Calls :
            (FreeFormStep(c) /\ Appended(c) # <<>> /\ Facts(Line(c)).date_match.ok) =>
                Apart(Facts(Line(c)).amount_match, Facts(Line(c)).date_match)]_vars

\* A blank line, a header line or a line of separators.
Blank(line) == line = <<>>
Header(line) == AnyKeywordIn(HeaderKeywords, line)
Separator(line) == ReMatch(separator_pattern, line, FALSE).ok

\* C27: the carried-forward date changes only when the free-form part reads
\* a line in which a date token is found; blank lines, header lines,
\* separator lines and rows the tabular part emits leave it as it is, and
\* the first three add no candidate.
C27_CarriedDateFrame ==
    [][\A c \in Calls : LineStep(c) =>
            /\ current_date'[c] # current_date[c] =>
                   FreeFormStep(c) /\ Facts(Line(c)).date_match.ok
            /\ (Blank(Line(c)) \/ Header(Line(c)) \/ Separator(Line(c))) =>
                   current_date'[c] = current_date[c] /\ transactions'[c] = transactions[c]
            /\ RowAccepted(c) => current_date'[c] = current_date[c]]_vars

\* After a dated line, a line of separators and a row, the date of the first
\* line is still the carried-forward date, and two candidates were added.
C27_Witness ==
    /\ pc[1] = "loop" /\ lines[1] = <<>>
    /\ text[1] = JoinLines(<<Corpus[3], Corpus[18], Corpus[6]>>)
    /\ current_date[1] = <<"2","0","2","6","-","0","3","-","0","5">>
    /\ Len(transactions[1]) = 2

(***************************************************************************)
(* CategorizationService.categorize                                        *)
(***************************************************************************)
\* Lines 9-145: self.categories, in the order of the dictionary.
categories == <<
    [name |-> <<"A","l","i","m","e","n","t","a","t","i","o","n">>,
     patterns |->
        <<
        Cat(<<Wb, Grp(1, Alt(<<Lit(<<"c","a","r","r","e","f","o","u","r">>), Lit(<<"a","u","c","h","a","n">>), Lit(<<"l","e","c","l","e","r","c">>),
            Cat(<<Lit(<<"i","n","t","e","r","m","a","r","c","h">>), Cls({<<"eacute">>[1], <<"e">>[1]})>>), Lit(<<"i","n","t","e","r","m","a","r","c","h","e">>),
            Lit(<<"s","u","p","e","r"," ","u">>), Lit(<<"m","o","n","o","p","r","i","x">>), Lit(<<"c","a","s","i","n","o">>), Lit(<<"g","e","a","n","t">>),
            Lit(<<"e",".","l","e","c","l","e","r","c">>)>>)), Wb>>),
        Cat(<<Wb, Grp(1, Alt(<<Lit(<<"s","u","p","e","r","m","a","r","c","h","e">>), Lit(<<"s","u","p","e","r","m","a","r","c","h","eacute">>),
            Cat(<<Lit(<<"h","y","p","e","r","m","a","r","c","h">>), Cls({<<"eacute">>[1], <<"e">>[1]})>>), Lit(<<"g","r","a","n","d","e"," ","s","u","r","f","a","c","e">>)>>)), Wb>>),
        Cat(<<Wb, Grp(1, Alt(<<Lit(<<"h"," ","m","a","r","k","e","t">>), Lit(<<"h","&","m"," ","m","a","r","k","e","t">>), Lit(<<"m","a","r","k","e","t">>)>>)), Wb>>),
        Cat(<<Wb, Grp(1, Alt(<<Lit(<<"e","p","i","c","e","r","i","e">>), Lit(<<"eacute","p","i","c","e","r","i","e">>), Lit(<<"e","p","i","c","e","r","i","e">>), Lit(<<"a","l","i","m","e","n","t","a","t","i","o","n">>)>>)), Wb>>)>>,
     keywords |->
        <<<<"c","a","r","r","e","f","o","u","r">>, <<"a","u","c","h","a","n">>, <<"l","e","c","l","e","r","c">>, <<"i","n","t","e","r","m","a","r","c","h","eacute">>, <<"i","n","t","e","r","m","a","r","c","h","e">>, <<"s","u","p","e","r"," ","u">>,
        <<"m","o","n","o","p","r","i","x">>, <<"c","a","s","i","n","o">>, <<"g","e","a","n","t">>, <<"s","u","p","e","r","m","a","r","c","h","e">>, <<"s","u","p","e","r","m","a","r","c","h","eacute">>, <<"h","y","p","e","r","m","a","r","c","h","eacute">>,
        <<"h"," ","m","a","r","k","e","t">>, <<"e","p","i","c","e","r","i","e">>, <<"eacute","p","i","c","e","r","i","e">>, <<"a","l","i","m","e","n","t","a","t","i","o","n">>, <<"f","o","o","d">>, <<"g","r","o","c","e","r","y">>,
        <<"a","u","c","h","a","n"," ","b","r","e","t","i","g","n","y">>, <<"a","u","c","h","a","n"," ","b","r","eacute","t","i","g","n","y">>>>],
    [name |-> <<"R","e","s","t","a","u","r","a","n","t">>,
     patterns |->
        <<
        Cat(<<Wb, Grp(1, Alt(<<Lit(<<"c","a","f","e">>), Lit(<<"c","a","f","eacute">>), Lit(<<"c","o","f","f","e","e">>), Lit(<<"r","e","s","t","a","u","r","a","n","t">>),
            Lit(<<"r","e","s","t","o">>), Lit(<<"b","r","a","s","s","e","r","i","e">>), Lit(<<"b","i","s","t","r","o","t">>), Lit(<<"b","i","s","t","r","o">>)>>)), Wb>>),
        Cat(<<Wb, Grp(1, Alt(<<Lit(<<"m","c","d","o">>), Lit(<<"m","c","d","o","n","a","l","d">>), Lit(<<"k","f","c">>), Lit(<<"b","u","r","g","e","r">>), Lit(<<"p","i","z","z","a">>),
            Lit(<<"p","i","z","z","e","r","i","a">>), Lit(<<"f","a","s","t"," ","f","o","o","d">>)>>)), Wb>>),
        Cat(<<Wb, Grp(1, Alt(<<Lit(<<"s","a","v","e","u","r","s">>), Lit(<<"s","a","v","e","u","r">>), Lit(<<"c","u","i","s","i","n","e">>), Lit(<<"g","a","s","t","r","o","n","o","m","i","e">>)>>)), Wb>>),
        Cat(<<Wb, Grp(1, Alt(<<Lit(<<"d","e","l","i","v","e","r","o","o">>), Lit(<<"u","b","e","r","e","a","t","s">>), Lit(<<"j","u","s","t"," ","e","a","t">>), Lit(<<"t","a","k","e","a","w","a","y">>),
            Lit(<<"l","i","v","r","a","i","s","o","n">>)>>)), Wb>>)>>,
     keywords |->
        <<<<"c","a","f","e">>, <<"c","a","f","eacute">>, <<"r","e","s","t","a","u","r","a","n","t">>, <<"r","e","s","t","o">>, <<"b","r","a","s","s","e","r","i","e">>, <<"b","i","s","t","r","o","t">>, <<"b","i","s","t","r","o">>,
        <<"m","c","d","o">>, <<"m","c","d","o","n","a","l","d">>, <<"k","f","c">>, <<"b","u","r","g","e","r">>, <<"p","i","z","z","a">>, <<"p","i","z","z","e","r","i","a">>, <<"f","a","s","t"," ","f","o","o","d">>,
        <<"s","a","v","e","u","r","s">>, <<"s","a","v","e","u","r">>, <<"d","e","l","i","v","e","r","o","o">>, <<"u","b","e","r","e","a","t","s">>, <<"j","u","s","t"," ","e","a","t">>, <<"t","a","k","e","a","w","a","y">>>>],
    [name |-> <<"B","o","u","l","a","n","g","e","r","i","e">>,
     patterns |->
        <<
        Cat(<<Wb, Grp(1, Alt(<<Lit(<<"b","o","u","l","a","n","g","e","r","i","e">>), Lit(<<"b","o","u","l","a","n","g","e","r">>), Lit(<<"b","o","u","l","a","n","g">>), Lit(<<"p","a","t","i","s","s","e","r","i","e">>),
            Lit(<<"p","acirc","t","i","s","s","e","r","i","e">>), Lit(<<"t","r","a","d","i","t","i","o","n">>)>>)), Wb>>),
        Cat(<<Wb, Grp(1, Alt(<<Lit(<<"b","a","k","e","r","y">>), Lit(<<"p","a","i","n">>), Lit(<<"b","a","g","u","e","t","t","e">>)>>)), Wb>>)>>,
     keywords |->
        <<<<"b","o","u","l","a","n","g","e","r","i","e">>, <<"b","o","u","l","a","n","g","e","r">>, <<"b","o","u","l","a","n","g">>, <<"p","a","t","i","s","s","e","r","i","e">>, <<"p","acirc","t","i","s","s","e","r","i","e">>,
        <<"t","r","a","d","i","t","i","o","n">>, <<"b","a","k","e","r","y">>>>],
    [name |-> <<"S","h","o","p","p","i","n","g">>,
     patterns |->
        <<
        Cat(<<Wb, Grp(1, Alt(<<Lit(<<"b","a","r","b","e","r">>), Lit(<<"b","a","r","b","i","e","r">>), Lit(<<"c","o","i","f","f","e","u","r">>), Lit(<<"c","o","i","f","f","e","u","s","e">>),
            Lit(<<"s","a","l","o","n">>), Lit(<<"h","a","i","r","d","r","e","s","s","e","r">>)>>)), Wb>>),
        Cat(<<Wb, Grp(1, Alt(<<Lit(<<"a","m","a","z","o","n">>), Lit(<<"f","n","a","c">>), Lit(<<"d","a","r","t","y">>), Lit(<<"i","k","e","a">>), Lit(<<"z","a","r","a">>),
            Lit(<<"d","e","c","a","t","h","l","o","n">>), Lit(<<"c","u","l","t","u","r","a">>)>>)), Wb>>),
        Cat(<<Wb, Grp(1, Alt(<<Lit(<<"l","e","r","o","y"," ","m","e","r","l","i","n">>), Lit(<<"c","a","s","t","o","r","a","m","a">>), Lit(<<"b","r","i","c","o","r","a","m","a">>),
            Lit(<<"b","r","i","c","o","l","a","g","e">>), Lit(<<"b","r","i","c","o">>)>>)), Wb>>),
        Cat(<<Wb, Grp(1, Alt(<<Lit(<<"v","ecirc","t","e","m","e","n","t">>), Lit(<<"v","e","t","e","m","e","n","t">>), Lit(<<"h","a","b","i","l","l","e","m","e","n","t">>), Lit(<<"m","o","d","e">>),
            Lit(<<"f","a","s","h","i","o","n">>), Lit(<<"c","l","o","t","h","i","n","g">>)>>)), Wb>>)>>,
     keywords |->
        <<<<"b","a","r","b","e","r">>, <<"b","a","r","b","i","e","r">>, <<"c","o","i","f","f","e","u","r">>, <<"c","o","i","f","f","e","u","s","e">>, <<"s","a","l","o","n">>, <<"p","r","e","m","i","u","m"," ","b","a","r","b","e","r">>,
        <<"a","m","a","z","o","n">>, <<"f","n","a","c">>, <<"d","a","r","t","y">>, <<"i","k","e","a">>, <<"z","a","r","a">>, <<"d","e","c","a","t","h","l","o","n">>, <<"c","u","l","t","u","r","a">>,
        <<"l","e","r","o","y"," ","m","e","r","l","i","n">>, <<"c","a","s","t","o","r","a","m","a">>, <<"b","r","i","c","o","r","a","m","a">>, <<"b","r","i","c","o","l","a","g","e">>, <<"b","r","i","c","o">>, <<"v","ecirc","t","e","m","e","n","t">>,
        <<"v","e","t","e","m","e","n","t">>, <<"h","a","b","i","l","l","e","m","e","n","t">>, <<"m","o","d","e">>, <<"f","a","s","h","i","o","n">>>>],
    [name |-> <<"S","t","a","t","i","o","n"," ","d","e"," ","s","e","r","v","i","c","e">>,
     patterns |->
        <<
        Cat(<<Wb, Grp(1, Alt(<<Cat(<<Lit(<<"s","t","a","t","i","o","n">>), Star(AnyChar), Lit(<<"s","e","r","v","i","c","e">>)>>),
            Cat(<<Lit(<<"s","t","a","t","i","o","n">>), Star(AnyChar), Lit(<<"e","s","s","e","n","c","e">>)>>),
            Cat(<<Lit(<<"s","t","a","t","i","o","n">>), Star(AnyChar), Lit(<<"c","a","r","b","u","r","a","n","t">>)>>)>>)), Wb>>),
        Cat(<<Wb, Grp(1, Alt(<<Lit(<<"r","e","l","a","i","s">>), Cat(<<Lit(<<"r","e","l","a","i","s">>), Star(AnyChar), Lit(<<"d","r","a","p","e","a","u">>)>>),
            Cat(<<Lit(<<"r","e","l","a","i","s">>), Star(AnyChar), Lit(<<"r","o","u","t","e">>)>>)>>)), Wb>>),
        Cat(<<Wb, Grp(1, Alt(<<Lit(<<"t","o","t","a","l">>), Lit(<<"s","h","e","l","l">>), Lit(<<"b","p">>), Lit(<<"e","s","s","o">>), Lit(<<"m","o","b","i","l">>),
            Lit(<<"a","v","i","a">>), Lit(<<"a","g","i","p">>)>>)), Wb>>),
        Cat(<<Wb, Grp(1, Alt(<<Lit(<<"e","s","s","e","n","c","e">>), Lit(<<"c","a","r","b","u","r","a","n","t">>), Lit(<<"g","a","s","o","i","l">>), Lit(<<"g","a","z","o","l","e">>),
            Lit(<<"d","i","e","s","e","l">>)>>)), Wb>>)>>,
     keywords |->
        <<<<"s","t","a","t","i","o","n"," ","s","e","r","v","i","c","e">>, <<"s","t","a","t","i","o","n","-","s","e","r","v","i","c","e">>, <<"s","t","a","t","i","o","n"," ","e","s","s","e","n","c","e">>, <<"s","t","a","t","i","o","n"," ","c","a","r","b","u","r","a","n","t">>,
        <<"r","e","l","a","i","s">>, <<"r","e","l","a","i","s"," ","d","r","a","p","e","a","u">>, <<"r","e","l","a","i","s"," ","r","o","u","t","e">>, <<"r","e","l","a","i","s"," ","a","u","t","o","r","o","u","t","e">>, <<"t","o","t","a","l">>,
        <<"s","h","e","l","l">>, <<"b","p">>, <<"e","s","s","o">>, <<"m","o","b","i","l">>, <<"a","v","i","a">>, <<"a","g","i","p">>, <<"e","s","s","e","n","c","e">>, <<"c","a","r","b","u","r","a","n","t">>,
        <<"g","a","s","o","i","l">>, <<"g","a","z","o","l","e">>, <<"d","i","e","s","e","l">>>>],
    [name |-> <<"T","r","a","n","s","p","o","r","t">>,
     patterns |->
        <<Cat(<<Wb, Grp(1, Alt(<<Lit(<<"p","e","a","g","e">>), Lit(<<"p","eacute","a","g","e">>), Lit(<<"t","o","l","l">>), Lit(<<"a","u","t","o","r","o","u","t","e">>)>>)), Wb>>),
        Cat(<<Wb, Grp(1, Alt(<<Lit(<<"s","n","c","f">>), Lit(<<"t","r","a","i","n">>), Lit(<<"m","e","t","r","o">>), Lit(<<"m","eacute","t","r","o">>), Lit(<<"b","u","s">>),
            Lit(<<"t","r","a","m">>), Lit(<<"r","e","r">>)>>)), Wb>>),
        Cat(<<Wb, Grp(1, Alt(<<Lit(<<"t","a","x","i">>), Lit(<<"u","b","e","r">>), Lit(<<"b","o","l","t">>), Lit(<<"h","e","e","t","c","h">>), Lit(<<"p","a","r","k","i","n","g">>),
            Lit(<<"p","a","r","k">>)>>)), Wb>>),
        Cat(<<Wb, Grp(1, Alt(<<Lit(<<"g","a","r","a","g","e">>), Lit(<<"r","eacute","p","a","r","a","t","i","o","n">>), Lit(<<"r","e","p","a","r","a","t","i","o","n">>), Lit(<<"m","e","c","a","n","i","q","u","e">>),
            Lit(<<"m","eacute","c","a","n","i","q","u","e">>)>>)), Wb>>)>>,
     keywords |->
        <<<<"p","e","a","g","e">>, <<"p","eacute","a","g","e">>, <<"s","n","c","f">>, <<"t","r","a","i","n">>, <<"m","e","t","r","o">>, <<"m","eacute","t","r","o">>, <<"b","u","s">>, <<"t","a","x","i">>,
        <<"u","b","e","r">>, <<"p","a","r","k","i","n","g">>, <<"p","a","r","k">>, <<"g","a","r","a","g","e">>, <<"r","eacute","p","a","r","a","t","i","o","n">>, <<"r","e","p","a","r","a","t","i","o","n">>>>],
    [name |-> <<"L","o","g","e","m","e","n","t">>,
     patterns |->
        <<
        Cat(<<Wb, Grp(1, Alt(<<Lit(<<"l","o","y","e","r">>), Lit(<<"c","h","a","r","g","e","s">>), Lit(<<"e","a","u">>), Lit(<<"eacute","l","e","c","t","r","i","c","i","t","eacute">>),
            Lit(<<"e","l","e","c","t","r","i","c","i","t","e">>), Lit(<<"g","a","z">>)>>)), Wb>>),
        Cat(<<Wb, Grp(1, Alt(<<Lit(<<"e","d","f">>), Lit(<<"e","n","g","i","e">>), Lit(<<"e","n","e","d","i","s">>), Lit(<<"g","r","d","f">>), Lit(<<"s","y","n","d","i","c">>),
            Lit(<<"c","o","p","r","o","p","r","i","eacute","t","eacute">>)>>)), Wb>>),
        Cat(<<Wb, Grp(1, Alt(<<Lit(<<"h","o","t","e","l">>), Lit(<<"h","ocirc","t","e","l">>), Lit(<<"a","i","r","b","n","b">>), Lit(<<"b","o","o","k","i","n","g">>),
            Lit(<<"l","o","g","e","m","e","n","t">>)>>)), Wb>>)>>,
     keywords |->
        <<<<"l","o","y","e","r">>, <<"c","h","a","r","g","e","s">>, <<"e","a","u">>, <<"eacute","l","e","c","t","r","i","c","i","t","eacute">>, <<"e","l","e","c","t","r","i","c","i","t","e">>, <<"g","a","z">>, <<"e","d","f">>,
        <<"e","n","g","i","e">>, <<"e","n","e","d","i","s">>, <<"g","r","d","f">>, <<"s","y","n","d","i","c">>, <<"c","o","p","r","o","p","r","i","eacute","t","eacute">>, <<"h","o","t","e","l">>, <<"h","ocirc","t","e","l">>,
        <<"a","i","r","b","n","b">>, <<"b","o","o","k","i","n","g">>>>],
    [name |-> <<"S","a","n","t","eacute">>,
     patterns |->
        <<
        Cat(<<Wb, Grp(1, Alt(<<Lit(<<"p","h","a","r","m","a","c","i","e">>), Lit(<<"p","h","a","r","m","a">>), Lit(<<"m","eacute","d","e","c","i","n">>), Lit(<<"m","e","d","e","c","i","n">>),
            Lit(<<"d","e","n","t","i","s","t","e">>), Lit(<<"o","p","t","i","c","i","e","n">>)>>)), Wb>>),
        Cat(<<Wb, Grp(1, Alt(<<Lit(<<"h","o","p","i","t","a","l">>), Lit(<<"h","ocirc","p","i","t","a","l">>), Lit(<<"c","l","i","n","i","q","u","e">>), Lit(<<"m","u","t","u","e","l","l","e">>),
            Lit(<<"a","s","s","u","r","a","n","c","e"," ","s","a","n","t","eacute">>)>>)), Wb>>),
        Cat(<<Wb, Grp(1, Alt(<<Lit(<<"l","a","b","o","r","a","t","o","i","r","e">>), Lit(<<"a","n","a","l","y","s","e">>), Lit(<<"m","e","d","i","c","a","l">>), Lit(<<"m","eacute","d","i","c","a","l">>)>>)), Wb>>)>>,
     keywords |->
        <<<<"p","h","a","r","m","a","c","i","e">>, <<"p","h","a","r","m","a">>, <<"m","eacute","d","e","c","i","n">>, <<"m","e","d","e","c","i","n">>, <<"d","e","n","t","i","s","t","e">>, <<"o","p","t","i","c","i","e","n">>,
        <<"h","o","p","i","t","a","l">>, <<"h","ocirc","p","i","t","a","l">>, <<"c","l","i","n","i","q","u","e">>, <<"m","u","t","u","e","l","l","e">>, <<"l","a","b","o","r","a","t","o","i","r","e">>, <<"a","n","a","l","y","s","e">>>>],
    [name |-> <<"L","o","i","s","i","r","s">>,
     patterns |->
        <<
        Cat(<<Wb, Grp(1, Alt(<<Lit(<<"c","i","n","e","m","a">>), Lit(<<"c","i","n","eacute","m","a">>), Lit(<<"n","e","t","f","l","i","x">>), Lit(<<"s","p","o","t","i","f","y">>),
            Lit(<<"d","i","s","n","e","y">>), Lit(<<"p","r","i","m","e"," ","v","i","d","e","o">>)>>)), Wb>>),
        Cat(<<Wb, Grp(1, Alt(<<Lit(<<"s","a","l","l","e"," ","d","e"," ","s","p","o","r","t">>), Lit(<<"g","y","m">>), Lit(<<"f","i","t","n","e","s","s">>), Lit(<<"s","p","o","r","t">>),
            Lit(<<"c","o","n","c","e","r","t">>), Lit(<<"s","p","e","c","t","a","c","l","e">>)>>)), Wb>>),
        Cat(<<Wb, Grp(1, Alt(<<Lit(<<"m","u","s","eacute","e">>), Lit(<<"m","u","s","e","e">>), Lit(<<"v","o","y","a","g","e">>), Lit(<<"t","o","u","r","i","s","m","e">>)>>)), Wb>>)>>,
     keywords |->
        <<<<"c","i","n","e","m","a">>, <<"c","i","n","eacute","m","a">>, <<"n","e","t","f","l","i","x">>, <<"s","p","o","t","i","f","y">>, <<"d","i","s","n","e","y">>, <<"p","r","i","m","e"," ","v","i","d","e","o">>,
        <<"s","a","l","l","e"," ","d","e"," ","s","p","o","r","t">>, <<"g","y","m">>, <<"f","i","t","n","e","s","s">>, <<"s","p","o","r","t">>, <<"c","o","n","c","e","r","t">>, <<"s","p","e","c","t","a","c","l","e">>,
        <<"m","u","s","eacute","e">>, <<"m","u","s","e","e">>, <<"v","o","y","a","g","e">>, <<"t","o","u","r","i","s","m","e">>>>],
    [name |-> <<"A","b","o","n","n","e","m","e","n","t","s">>,
     patterns |->
        <<
        Cat(<<Wb, Grp(1, Alt(<<Lit(<<"a","b","o","n","n","e","m","e","n","t">>), Lit(<<"n","e","t","f","l","i","x">>), Lit(<<"s","p","o","t","i","f","y">>), Lit(<<"a","m","a","z","o","n"," ","p","r","i","m","e">>),
            Lit(<<"d","i","s","n","e","y">>)>>)), Wb>>),
        Cat(<<Wb, Grp(1, Alt(<<Lit(<<"y","o","u","t","u","b","e"," ","p","r","e","m","i","u","m">>), Lit(<<"a","p","p","l","e"," ","m","u","s","i","c">>), Lit(<<"d","e","e","z","e","r">>), Lit(<<"c","a","n","a","l","+">>)>>)), Wb>>),
        Cat(<<Wb, Grp(1, Alt(<<Lit(<<"o","r","a","n","g","e">>), Lit(<<"s","f","r">>), Lit(<<"b","o","u","y","g","u","e","s">>), Lit(<<"f","r","e","e">>), Lit(<<"m","o","b","i","l","e">>),
            Lit(<<"f","o","r","f","a","i","t">>)>>)), Wb>>)>>,
     keywords |->
        <<<<"a","b","o","n","n","e","m","e","n","t">>, <<"n","e","t","f","l","i","x">>, <<"s","p","o","t","i","f","y">>, <<"a","m","a","z","o","n"," ","p","r","i","m","e">>, <<"d","i","s","n","e","y">>,
        <<"y","o","u","t","u","b","e"," ","p","r","e","m","i","u","m">>, <<"a","p","p","l","e"," ","m","u","s","i","c">>, <<"d","e","e","z","e","r">>, <<"c","a","n","a","l","+">>, <<"o","r","a","n","g","e">>, <<"s","f","r">>,
        <<"b","o","u","y","g","u","e","s">>, <<"f","r","e","e">>, <<"m","o","b","i","l","e">>, <<"f","o","r","f","a","i","t">>>>],
    [name |-> <<"B","a","n","q","u","e">>,
     patterns |->
        <<
        Cat(<<Wb, Grp(1, Alt(<<Lit(<<"f","r","a","i","s"," ","b","a","n","c","a","i","r","e">>), Lit(<<"a","g","i","o","s">>), Lit(<<"c","o","m","m","i","s","s","i","o","n">>), Lit(<<"a","s","s","u","r","a","n","c","e">>),
            Lit(<<"b","a","n","q","u","e">>)>>)), Wb>>),
        Cat(<<Wb, Grp(1, Alt(<<Lit(<<"c","r","eacute","d","i","t">>), Lit(<<"c","r","e","d","i","t">>), Lit(<<"p","r","ecirc","t">>), Lit(<<"p","r","e","t">>),
            Lit(<<"r","e","m","b","o","u","r","s","e","m","e","n","t">>)>>)), Wb>>)>>,
     keywords |->
        <<<<"f","r","a","i","s"," ","b","a","n","c","a","i","r","e">>, <<"a","g","i","o","s">>, <<"c","o","m","m","i","s","s","i","o","n">>, <<"a","s","s","u","r","a","n","c","e">>, <<"b","a","n","q","u","e">>, <<"c","r","eacute","d","i","t">>,
        <<"c","r","e","d","i","t">>, <<"p","r","ecirc","t">>, <<"p","r","e","t">>, <<"r","e","m","b","o","u","r","s","e","m","e","n","t">>>>] >>

\* Lines 159-162
priority_order == <<<<"R","e","s","t","a","u","r","a","n","t">>, <<"B","o","u","l","a","n","g","e","r","i","e">>, <<"S","h","o","p","p","i","n","g">>, <<"A","l","i","m","e","n","t","a","t","i","o","n">>,
                    <<"S","t","a","t","i","o","n"," ","d","e"," ","s","e","r","v","i","c","e">>, <<"T","r","a","n","s","p","o","r","t">>, <<"L","o","g","e","m","e","n","t">>, <<"S","a","n","t","eacute">>, <<"L","o","i","s","i","r","s">>,
                    <<"A","b","o","n","n","e","m","e","n","t","s">>, <<"B","a","n","q","u","e">>>>

\* Lines 183-192
special_cases == <<<<<<"c","a","f","e">>, <<"R","e","s","t","a","u","r","a","n","t">>>>, <<<<"c","a","f","eacute">>, <<"R","e","s","t","a","u","r","a","n","t">>>>,
                   <<<<"s","a","v","e","u","r","s">>, <<"R","e","s","t","a","u","r","a","n","t">>>>, <<<<"h"," ","m","a","r","k","e","t">>, <<"A","l","i","m","e","n","t","a","t","i","o","n">>>>,
                   <<<<"t","r","a","d","i","t","i","o","n">>, <<"B","o","u","l","a","n","g","e","r","i","e">>>>, <<<<"b","a","r","b","e","r">>, <<"S","h","o","p","p","i","n","g">>>>,
                   <<<<"b","a","r","b","i","e","r">>, <<"S","h","o","p","p","i","n","g">>>>, <<<<"r","e","l","a","i","s">>, <<"S","t","a","t","i","o","n"," ","d","e"," ","s","e","r","v","i","c","e">>>>>>

\* self.categories[name]
CategoryData(name) ==
    categories[CHOOSE i \in 1..Len(categories) : categories[i].name = name]

\* 'Autres' had it been None.
NoLabel == None

\* 'Autres', the label of lines 153 and 198
DefaultLabel == <<"A","u","t","r","e","s">>

\* Lines 169-171: some pattern of the category is found in description_lower
\* by re.search with re.IGNORECASE.
AnyPatternFound(name, description_lower) ==
    \E k \in 1..Len(CategoryData(name).patterns) :
        ReSearch(CategoryData(name).patterns[k], description_lower, TRUE).ok

\* Lines 174-179 had the loop over the keywords found nothing.
NoKeywordFound(name, description_lower) == FALSE

\* Lines 177-179: some keyword of the category is in description_lower.
AnyKeywordFound(name, description_lower) ==
    \E k \in 1..Len(CategoryData(name).keywords) :
        Contains(description_lower, CategoryData(name).keywords[k])

RECURSIVE SpecialFrom(_, _)
\* Lines 194-198: the first special case whose key is in description_lower,
\* else 'Autres'.
SpecialFrom(description_lower, k) ==
    IF k > Len(special_cases) THEN DefaultLabel
    ELSE IF Contains(description_lower, special_cases[k][1]) THEN special_cases[k][2]
    ELSE SpecialFrom(description_lower, k + 1)

\* The words descriptions are made of.
Vocabulary == <<
    <<"r","e","s","t","a","u","r","a","n","t">>, <<"c","a","r","r","e","f","o","u","r">>, <<"c","a","f","e","t","e","r","i","a">>, <<"c","a","r","r","e","f","o","u","r","s">>, <<"p","a","u","l">>, <<"C","a","f","eacute">> >>

\* The longest description, in words.
MaxWords == 2

RECURSIVE JoinWords(_)
JoinWords(ws) ==
    IF Len(ws) = 0 THEN <<>>
    ELSE IF Len(ws) = 1 THEN ws[1]
    ELSE ws[1] \o <<" ">> \o JoinWords(Tail(ws))

Descriptions ==
    {JoinWords([i \in 1..Len(f) |-> Vocabulary[f[i]]]) :
        f \in UNION {[1..k -> 1..Len(Vocabulary)] : k \in 0..MaxWords}}

\* For every description, the categories one of whose patterns is found in
\* it and those one of whose keywords is in it, computed once.
FoundTable ==
    [d \in Descriptions |->
        [patterns |-> {n \in Range(priority_order) : AnyPatternFound(n, LowerStr(d))},
         keywords |-> {n \in Range(priority_order) : AnyKeywordFound(n, LowerStr(d))}]]

\* The for loop of line 165 had it gone over the dictionary in its own order.
PatternsCategoryOfDict(i) == categories[i].name

\* Line 165: for category in priority_order
PatternsCategory(i) == priority_order[i]

\* The for loop of line 174 had it gone over the dictionary in its own order.
KeywordsCategoryOfDict(i) == categories[i].name

\* Line 174: for category in priority_order
KeywordsCategory(i) == priority_order[i]

\* Lines 152-156
CategorizeStart ==
    /\ cat_pc = "start"
    /\ IF description = <<>>
       THEN category' = DefaultLabel /\ cat_pc' = "done" /\ UNCHANGED cat_index
       ELSE cat_pc' = "patterns" /\ cat_index' = 1 /\ UNCHANGED category
    /\ UNCHANGED <<description, parseVars, smsVars, budgetVars>>

\* Lines 165-171: a pattern of the category the loop is at is found.
PatternHit ==
    /\ cat_pc = "patterns"
    /\ PatternsCategory(cat_index) \in FoundTable[description].patterns
    /\ category' = PatternsCategory(cat_index)
    /\ cat_pc' = "done"
    /\ UNCHANGED <<description, cat_index, parseVars, smsVars, budgetVars>>

\* Lines 165-171: no pattern of the category is found; the loop goes on, and
\* after its last category the loop of line 174 starts.
PatternMiss ==
    /\ cat_pc = "patterns"
    /\ PatternsCategory(cat_index) \notin FoundTable[description].patterns
    /\ IF cat_index < Len(priority_order)
       THEN cat_index' = cat_index + 1 /\ UNCHANGED cat_pc
       ELSE cat_index' = 1 /\ cat_pc' = "keywords"
    /\ UNCHANGED <<description, category, parseVars, smsVars, budgetVars>>

\* Lines 174-179: a keyword of the category the loop is at is found.
KeywordHit ==
    /\ cat_pc = "keywords"
    /\ KeywordsCategory(cat_index) \in FoundTable[description].keywords
    /\ category' = KeywordsCategory(cat_index)
    /\ cat_pc' = "done"
    /\ UNCHANGED <<description, cat_index, parseVars, smsVars, budgetVars>>

\* Lines 174-179: no keyword of the category is found; the loop goes on, and
\* after its last category come the special cases.
KeywordMiss ==
    /\ cat_pc = "keywords"
    /\ KeywordsCategory(cat_index) \notin FoundTable[description].keywords
    /\ IF cat_index < Len(priority_order)
       THEN cat_index' = cat_index + 1 /\ UNCHANGED cat_pc
       ELSE cat_index' = 0 /\ cat_pc' = "special"
    /\ UNCHANGED <<description, category, parseVars, smsVars, budgetVars>>

\* Lines 183-198: the special cases, else 'Autres'.
SpecialCases ==
    /\ cat_pc = "special"
    /\ category' = SpecialFrom(LowerStr(description), 1)
    /\ cat_pc' = "done"
    /\ UNCHANGED <<description, cat_index, parseVars, smsVars, budgetVars>>

\* categorize(description) run from its first line to its return.
RECURSIVE FirstIn(_, _, _)
FirstIn(order, found, i) ==
    IF i > Len(order) THEN None
    ELSE IF order[i] \in found THEN order[i] ELSE FirstIn(order, found, i + 1)

Categorize(d) ==
    IF d = <<>> THEN DefaultLabel
    ELSE IF FirstIn(priority_order, FoundTable[d].patterns, 1) # None
         THEN FirstIn(priority_order, FoundTable[d].patterns, 1)
    ELSE IF FirstIn(priority_order, FoundTable[d].keywords, 1) # None
         THEN FirstIn(priority_order, FoundTable[d].keywords, 1)
    ELSE SpecialFrom(LowerStr(d), 1)

\* One call of categorize on any description.
InitCat ==
    /\ description \in Descriptions
    /\ cat_pc = "start" /\ cat_index = 0 /\ category = None
    /\ InitCalls({}, Documents) /\ SmsIdle /\ BudgetIdle

NextCat ==
    \/ CategorizeStart
    \/ PatternHit
    \/ PatternMiss
    \/ KeywordHit
    \/ KeywordMiss
    \/ SpecialCases

SpecCat == InitCat /\ [][NextCat]_vars

(***************************************************************************)
(* Properties of categorize.                                               *)
(***************************************************************************)
\* The closed taxonomy, in the fixed priority sequence, and the default.
Taxonomy == <<
    <<"R","e","s","t","a","u","r","a","n","t">>, <<"B","o","u","l","a","n","g","e","r","i","e">>, <<"S","h","o","p","p","i","n","g">>, <<"A","l","i","m","e","n","t","a","t","i","o","n">>,
    <<"S","t","a","t","i","o","n"," ","d","e"," ","s","e","r","v","i","c","e">>, <<"T","r","a","n","s","p","o","r","t">>, <<"L","o","g","e","m","e","n","t">>, <<"S","a","n","t","eacute">>, <<"L","o","i","s","i","r","s">>,
    <<"A","b","o","n","n","e","m","e","n","t","s">>, <<"B","a","n","q","u","e">>, <<"A","u","t","r","e","s">> >>

Categorized == cat_pc = "done"

\* The categories of which a pattern is found in the description, and those
\* of which a keyword is in the lower-cased description.
WithPattern == FoundTable[description].patterns

WithKeyword == FoundTable[description].keywords

\* The first category of the priority sequence that is in found.
FirstOf(found) ==
    Taxonomy[CHOOSE i \in 1..Len(Taxonomy) :
                /\ Taxonomy[i] \in found
                /\ \A j \in 1..(i - 1) : Taxonomy[j] \notin found]

\* C2: categorize returns exactly one label of the closed 12-label
\* taxonomy, never an empty or null one, and 'Autres' for the empty
\* description.
C2_LabelInTaxonomy ==
    Categorized =>
        /\ category \in Range(Taxonomy)
        /\ description = <<>> => category = <<"A","u","t","r","e","s">>

\* A description in which nothing is found, and the empty one, got 'Autres'.
C2_Witness ==
    /\ Categorized
    /\ description \in {<<>>, <<"p","a","u","l">>}
    /\ category = <<"A","u","t","r","e","s">>

\* C9: when a pattern of some category is found in the description, the
\* result is the first category of the priority sequence with a pattern
\* found, whatever keywords of other categories the description holds.
C9_PatternPriority ==
    (Categorized /\ description # <<>> /\ WithPattern # {}) =>
        category = FirstOf(WithPattern)

\* 'cafeteria carrefour': a keyword of Restaurant (first in priority) and no
\* pattern of it, a pattern of Alimentation; the result is Alimentation.
C9_Witness ==
    /\ Categorized
    /\ <<"R","e","s","t","a","u","r","a","n","t">> \in WithKeyword \ WithPattern
    /\ <<"A","l","i","m","e","n","t","a","t","i","o","n">> \in WithPattern
    /\ category = <<"A","l","i","m","e","n","t","a","t","i","o","n">>

\* C10: when no pattern of any category is found, the result is the first
\* category of the priority sequence with a keyword in the lower-cased
\* description; the keyword pass runs only when no pattern was found.
C10_KeywordPriority ==
    /\ (Categorized /\ description # <<>> /\ WithPattern = {} /\ WithKeyword # {}) =>
            category = FirstOf(WithKeyword)
    /\ cat_pc \in {"keywords", "special"} => WithPattern = {}

\* 'carrefours cafeteria': keywords of Alimentation and of Restaurant, no
\* pattern; the result is Restaurant, the first of the two in priority.
C10_Witness ==
    /\ Categorized
    /\ WithPattern = {}
    /\ {<<"A","l","i","m","e","n","t","a","t","i","o","n">>, <<"R","e","s","t","a","u","r","a","n","t">>} \subseteq WithKeyword
    /\ category = <<"R","e","s","t","a","u","r","a","n","t">>

\* C11: a description in which a pattern of a chain store is found (a
\* pattern of Alimentation, such as 'carrefour') and that also holds the
\* word 'restaurant' gets the category of the chain store, Alimentation.
C11_ChainStoreNotOverridden ==
    (/\ Categorized
     /\ <<"A","l","i","m","e","n","t","a","t","i","o","n">> \in WithPattern
     /\ Contains(LowerStr(description), <<"r","e","s","t","a","u","r","a","n","t">>))
    => category = <<"A","l","i","m","e","n","t","a","t","i","o","n">>

\* categorize without the special cases of lines 183-196: the regex pass,
\* the keyword pass, else 'Autres'.
CategorizeWithoutSpecialCases(d) ==
    IF d = <<>> THEN DefaultLabel
    ELSE IF FirstIn(priority_order, FoundTable[d].patterns, 1) # None
         THEN FirstIn(priority_order, FoundTable[d].patterns, 1)
    ELSE IF FirstIn(priority_order, FoundTable[d].keywords, 1) # None
         THEN FirstIn(priority_order, FoundTable[d].keywords, 1)
    ELSE DefaultLabel

\* The key of the special case holds a keyword of a category of the
\* priority order: the keyword pass answers for every text that holds it.
KeyHoldsKeyword(key) ==
    \E i \in 1..Len(priority_order) : AnyKeywordFound(priority_order[i], key)

\* C28: the special cases never decide the result of categorize: every key
\* of the table holds a keyword of some category, a call that reaches the
\* table finds none of its keys in the description, and the label returned
\* is the label of categorize without the table.
C28_SpecialCasesNeverDecide ==
    /\ \A k \in 1..Len(special_cases) : KeyHoldsKeyword(special_cases[k][1])
    /\ cat_pc = "special" => SpecialFrom(LowerStr(description), 1) = DefaultLabel
    /\ Categorized => category = CategorizeWithoutSpecialCases(description)

\* 'cafeteria' holds the key 'cafe' and was answered before the table.
C28_Witness ==
    /\ Categorized
    /\ description = Vocabulary[3]
    /\ SpecialFrom(LowerStr(description), 1) = <<"R","e","s","t","a","u","r","a","n","t">>
    /\ category = <<"R","e","s","t","a","u","r","a","n","t">>
    /\ cat_index >= 1

(***************************************************************************)
(* NotificationParser.parse_sms                                            *)
(***************************************************************************)
\* \s, [-en dash], ([\d,\.]+) and (\d{2}/\d{2}/\d{4}) of the patterns
Ws == Cls(WhiteSpace)

Dash == Cls({"-", "endash"})

AmountGroup == Grp(1, Plus(Cls(Digits \cup {",", "."})))

\* ([^-]+?)
TextGroup == Grp(2, RepLazy(NCls({"-"}), 1, -1))

DateGroup ==
    Grp(3, Cat(<<Rep(D, 2, 2), Lit(<<"/">>), Rep(D, 2, 2), Lit(<<"/">>), Rep(D, 4, 4)>>))

\* Line 20
carte_1 ==
    Cat(<<Alt(<<Lit(<<"C","A","R","T","E">>), Cat(<<Lit(<<"C","A","R","T","E">>), Plus(Ws), Lit(<<"*","*","*","*">>)>>)>>),
          Plus(Ws), Alt(<<Rep(D, 4, 4), Lit(<<"X","X","X","X">>)>>),
          Star(Ws), Dash, Star(Ws), AmountGroup,
          Star(Ws), Alt(<<Lit(<<"E","U","R">>), Lit(<<"euro">>), Cat(<<Lit(<<"E","U","R","O">>), Opt(Lit(<<"S">>))>>)>>),
          Star(Ws), Dash, Star(Ws), TextGroup,
          Star(Ws), Dash, Star(Ws), DateGroup>>)

\* Line 22
carte_2 ==
    Cat(<<Lit(<<"P","a","i","e","m","e","n","t">>), Plus(Ws), Alt(<<Lit(<<"C","A","R","T","E">>), Lit(<<"C","B">>)>>),
          Plus(Ws), AmountGroup, Plus(Cls({"euro", "E", "U", "R"} \cup WhiteSpace)),
          TextGroup, Plus(Ws), Opt(Cat(<<Lit(<<"l","e">>), Plus(Ws)>>)), DateGroup>>)

\* Line 26
virement_1 ==
    Cat(<<Lit(<<"V","i","r","e","m","e","n","t">>), Plus(Ws), Alt(<<Lit(<<"r","e","ccedil","u">>), Lit(<<"e","n","v","o","y","eacute">>)>>),
          Plus(Ws), Opt(Alt(<<Lit(<<"d","e">>), Lit(<<"v","e","r","s">>)>>)), Plus(Ws), AmountGroup,
          Star(Ws), Alt(<<Lit(<<"E","U","R">>), Lit(<<"euro">>)>>),
          Star(Ws), Dash, Star(Ws), Opt(TextGroup),
          Star(Ws), Opt(Dash), Star(Ws), Opt(DateGroup)>>)

\* Line 30
prelevement_1 ==
    Cat(<<Lit(<<"P","r">>), Cls({<<"eacute">>[1], "e"}), Lit(<<"l">>), Cls({<<"egrave">>[1], "e"}), Lit(<<"v","e","m","e","n","t">>),
          Plus(Ws), AmountGroup, Star(Ws), Alt(<<Lit(<<"E","U","R">>), Lit(<<"euro">>)>>),
          Star(Ws), Dash, Star(Ws), TextGroup,
          Star(Ws), Dash, Star(Ws), DateGroup>>)

\* self.patterns had the list of 'prelevement' been the first of the dict.
PatternsDebitFirst == <<
    [transaction_type |-> "prelevement", pattern |-> prelevement_1],
    [transaction_type |-> "carte", pattern |-> carte_1],
    [transaction_type |-> "carte", pattern |-> carte_2],
    [transaction_type |-> "virement", pattern |-> virement_1] >>

\* Lines 17-32: self.patterns in the order the two for loops visit it, each
\* pattern with the key of its list.
patterns == <<
    [transaction_type |-> "carte", pattern |-> carte_1],
    [transaction_type |-> "carte", pattern |-> carte_2],
    [transaction_type |-> "virement", pattern |-> virement_1],
    [transaction_type |-> "prelevement", pattern |-> prelevement_1] >>

\* Line 56-57: float(match.group(1).replace(',', '.'))
SmsAmount(txt, match) == ParseFloat(Replace(Group(txt, match, 1), <<",">>, <<".">>))

\* Line 59
SmsDescription(txt, match) ==
    IF ~GroupIsNone(match, 2) /\ Group(txt, match, 2) # <<>>
    THEN Strip(Group(txt, match, 2))
    ELSE <<"T","r","a","n","s","a","c","t","i","o","n">>

\* The fallback date had sms_date never been looked at.
DateIsToday(date) == Today

\* sms_date or datetime.now().strftime('%Y-%m-%d')
DateOrToday(date) == IF date # None /\ date # <<>> THEN date ELSE Today

\* Lines 66-73, for a date_str that holds a '/'
SlashDate(parts, date) ==
    IF Len(parts) = 3
    THEN (IF Len(parts[3]) = 2 THEN <<"2","0">> \o parts[3] ELSE parts[3])
         \o <<"-">> \o ZFill2(parts[2]) \o <<"-">> \o ZFill2(parts[1])
    ELSE DateOrToday(date)

\* Lines 62-77
SmsDate(txt, match, date) ==
    IF ~GroupIsNone(match, 3) /\ Group(txt, match, 3) # <<>>
    THEN IF Contains(Group(txt, match, 3), <<"/">>)
         THEN SlashDate(Split(Group(txt, match, 3), "/"), date)
         ELSE DateOrToday(date)
    ELSE DateOrToday(date)

\* The candidate had the key of the pattern list not been put in it.
CandidateOfSms(txt, match, amount, date, transaction_type) ==
    [description |-> SmsDescription(txt, match),
     amount      |-> amount,
     date        |-> SmsDate(txt, match, date),
     category    |-> None,
     source      |-> "sms",
     type        |-> "sms"]

\* Lines 79-86
Candidate(txt, match, amount, date, transaction_type) ==
    [description |-> SmsDescription(txt, match),
     amount      |-> amount,
     date        |-> SmsDate(txt, match, date),
     category    |-> None,
     source      |-> "sms",
     type        |-> transaction_type]

\* The notification texts.
SmsCorpus == {
    <<>>,
    <<"B","o","n","j","o","u","r">>,
    <<"C","A","R","T","E"," ","1","2","3","4"," ","-"," ","1","5",".","5","0"," ","E","U","R"," ","-"," ","C","A","R","R","E","F","O","U","R"," ","-"," ","1","2","/","0","1","/","2","0","2","4">>,
    <<"C","A","R","T","E"," ","1","2","3","4"," ","-"," ","0",".","0","0"," ","E","U","R"," ","-"," ","C","A","R","R","E","F","O","U","R"," ","-"," ","1","2","/","0","1","/","2","0","2","4">>,
    <<" "," ","c","a","r","t","e"," ","1","2","3","4"," ","-"," ","0",",","0","1"," ","E","U","R"," ","-"," ","c","a","f","e"," ","-"," ","0","1","/","0","2","/","2","0","2","4"," "," ">>,
    <<"C","A","R","T","E"," ","1","2","3","4"," ","-"," ","1",".","2",".","3"," ","E","U","R"," ","-"," ","C","A","R","R","E","F","O","U","R"," ","-"," ","1","2","/","0","1","/","2","0","2","4">>,
    <<"C","A","R","T","E"," ","1","2","3","4"," ","-"," ","1",".","2",".","3"," ","E","U","R"," ","-"," ","X"," ","-"," ","1","2","/","0","1","/","2","0","2","4"," ","P","r","eacute","l","egrave","v","e","m","e","n","t"," ","2","5",",","0","0"," ","E","U","R"," ","-"," ","A","B","O"," ","-"," ","1","3","/","0","1","/","2","0","2","4">>,
    <<"P","r","eacute","l","egrave","v","e","m","e","n","t"," ","2","5",".","0","0"," ","E","U","R"," ","-"," ","A","B","O"," ","-"," ","1","3","/","0","1","/","2","0","2","4"," ","C","A","R","T","E"," ","1","2","3","4"," ","-"," ","1","5",".","5","0"," ","E","U","R"," ","-"," ","F","N","A","C"," ","-"," ","1","2","/","0","1","/","2","0","2","4">>,
    <<"P","a","i","e","m","e","n","t"," ","C","B"," ","1","5",",","5","0","euro"," ","C","A","R","R","E","F","O","U","R"," ","l","e"," ","1","2","/","0","1","/","2","4">>,
    <<"P","a","i","e","m","e","n","t"," ","C","B"," ","1","5",",","5","0","euro"," ","C","A","R","R","E","F","O","U","R"," ","l","e"," ","1","2","/","0","1","/","2","0","2","4">>,
    <<"V","i","r","e","m","e","n","t"," ","r","e","ccedil","u"," ","d","e"," ","1","0","0",".","0","0"," ","E","U","R"," ","-"," ","1","2","/","0","1","/","2","0","2","4">>,
    <<"V","i","r","e","m","e","n","t"," ","r","e","ccedil","u"," ","d","e"," ","1","0","0",".","0","0"," ","E","U","R"," ","-">>,
    <<"V","i","r","e","m","e","n","t"," ","e","n","v","o","y","eacute"," ","v","e","r","s"," ","5","0",".","0","0"," ","euro"," ","-"," ","L","O","Y","E","R"," ","-"," ","0","5","/","0","1","/","2","0","2","4">>,
    <<"P","r","eacute","l","egrave","v","e","m","e","n","t"," ","2","5",".","0","0"," ","E","U","R"," ","-"," "," "," ","-"," ","1","2","/","0","1","/","2","0","2","4">>,
    <<"V","i","r","e","m","e","n","t"," ","e","n","v","o","y","eacute"," ","v","e","r","s"," ","5","0",".","0","0"," ","euro"," ","-"," ","L"," ","-"," ","0","5","/","0","1","/","2","0","2","4">>,
    <<"V","i","r","e","m","e","n","t"," ","r","e","ccedil","u"," ","d","e"," ","1","0","0",".","0","0"," ","E","U","R"," ","-"," ","X"," ","-"," ","1","2","/","0","1","/","2","4">>,
    <<" "," "," ">> }

\* The values of the argument sms_date.
SmsDates == {None, <<"2","0","2","4","-","0","2","-","0","1">>}

\* The subjects and the bodies of the emails.
EmailSubjects == {<<>>, <<"C","A","R","T","E">>, <<"A","l","e","r","t","e">>}

EmailBodies == {
    <<>>,
    <<"B","o","n","j","o","u","r">>,
    <<"1","2","3","4"," ","-"," ","1","5",".","5","0"," ","E","U","R"," ","-"," ","C","A","R","R","E","F","O","U","R"," ","-"," ","1","2","/","0","1","/","2","0","2","4">>,
    <<"1","2","3","4"," ","-"," ","1",".","2",".","3"," ","E","U","R"," ","-"," ","X"," ","-"," ","1","2","/","0","1","/","2","0","2","4">>,
    <<"V","i","r","e","m","e","n","t"," ","r","e","ccedil","u"," ","d","e"," ","1","0","0",".","0","0"," ","E","U","R"," ","-">> }

\* f"{email_subject}{email_body}": line 106 had it put no space between.
FullTextNoSpace(email_subject0, email_body0) == email_subject0 \o email_body0

\* Line 106: full_text = f"{email_subject} {email_body}"
FullText(email_subject0, email_body0) == email_subject0 \o <<" ">> \o email_body0

\* The texts parse_email hands to parse_sms, and the texts made of a
\* subject, a space and a body.
EmailCalls == {FullText(su, bo) : su \in EmailSubjects, bo \in EmailBodies}

EmailTexts == {su \o <<" ">> \o bo : su \in EmailSubjects, bo \in EmailBodies}

\* Line 48: sms_text.strip().upper()
Prepared(txt) == UpperStr(Strip(txt))

\* Line 53, for every prepared text and every pattern, computed once.
MatchTable ==
    [txt \in {Prepared(t) : t \in SmsCorpus \cup EmailTexts \cup EmailCalls} |->
        [k \in 1..Len(patterns) |-> ReSearch(patterns[k].pattern, txt, TRUE)]]

\* Lines 45-48
SmsStart ==
    /\ sms_pc = "start"
    /\ IF sms_text = <<>>
       THEN sms_result' = None /\ sms_pc' = "done" /\ UNCHANGED <<sms_text, attempt>>
       ELSE sms_text' = Prepared(sms_text) /\ attempt' = 1 /\ sms_pc' = "try"
            /\ UNCHANGED sms_result
    /\ UNCHANGED <<sms_date, emailVars, parseVars, catVars, budgetVars>>

\* Lines 52-54: the pattern is not found in the text; on to the next one.
PatternNotFound ==
    /\ sms_pc = "try" /\ attempt <= Len(patterns)
    /\ ~MatchTable[sms_text][attempt].ok
    /\ attempt' = attempt + 1
    /\ UNCHANGED <<sms_text, sms_date, sms_pc, sms_result, emailVars, parseVars, catVars, budgetVars>>

\* The except clause had it ended the call: return None.
AmountErrorReturnsNone ==
    /\ sms_pc = "try" /\ attempt <= Len(patterns)
    /\ MatchTable[sms_text][attempt].ok
    /\ ~SmsAmount(sms_text, MatchTable[sms_text][attempt]).ok
    /\ sms_result' = None
    /\ sms_pc' = "done"
    /\ UNCHANGED <<sms_text, sms_date, attempt, emailVars, parseVars, catVars, budgetVars>>

\* Lines 55-57 and 87-89: float() raises ValueError; continue.
AmountError ==
    /\ sms_pc = "try" /\ attempt <= Len(patterns)
    /\ MatchTable[sms_text][attempt].ok
    /\ ~SmsAmount(sms_text, MatchTable[sms_text][attempt]).ok
    /\ attempt' = attempt + 1
    /\ UNCHANGED <<sms_text, sms_date, sms_pc, sms_result, emailVars, parseVars, catVars, budgetVars>>

\* Lines 55-86: the candidate is returned.
ReturnCandidate ==
    /\ sms_pc = "try" /\ attempt <= Len(patterns)
    /\ MatchTable[sms_text][attempt].ok
    /\ SmsAmount(sms_text, MatchTable[sms_text][attempt]).ok
    /\ sms_result' = Candidate(sms_text, MatchTable[sms_text][attempt],
                               SmsAmount(sms_text, MatchTable[sms_text][attempt]).v,
                               sms_date, patterns[attempt].transaction_type)
    /\ sms_pc' = "done"
    /\ UNCHANGED <<sms_text, sms_date, attempt, emailVars, parseVars, catVars, budgetVars>>

\* Line 91 had it returned a candidate with no content.
ReturnEmptyCandidate ==
    /\ sms_pc = "try" /\ attempt > Len(patterns)
    /\ sms_result' = [description |-> <<"T","r","a","n","s","a","c","t","i","o","n">>, amount |-> [m |-> 0, d |-> 0],
                      date |-> DateOrToday(sms_date), category |-> None,
                      source |-> "sms", type |-> None]
    /\ sms_pc' = "done"
    /\ UNCHANGED <<sms_text, sms_date, attempt, emailVars, parseVars, catVars, budgetVars>>

\* Line 91: the loops are over.
ReturnNone ==
    /\ sms_pc = "try" /\ attempt > Len(patterns)
    /\ sms_result' = None
    /\ sms_pc' = "done"
    /\ UNCHANGED <<sms_text, sms_date, attempt, emailVars, parseVars, catVars, budgetVars>>

\* parse_sms(sms_text, sms_date) run from its first line to its return.
RECURSIVE TryFrom(_, _, _)
TryFrom(txt, date, k) ==
    IF k > Len(patterns) THEN None
    ELSE IF ~MatchTable[txt][k].ok \/ ~SmsAmount(txt, MatchTable[txt][k]).ok
         THEN TryFrom(txt, date, k + 1)
    ELSE Candidate(txt, MatchTable[txt][k], SmsAmount(txt, MatchTable[txt][k]).v,
                   date, patterns[k].transaction_type)

ParseSms(txt, date) == IF txt = <<>> THEN None ELSE TryFrom(Prepared(txt), date, 1)

\* One call of parse_sms on any text, with or without a date.
InitSms ==
    /\ sms_text \in SmsCorpus
    /\ sms_date \in SmsDates
    /\ sms_pc = "start" /\ attempt = 0 /\ sms_result = None
    /\ EmailIdle
    /\ InitCalls({}, Documents) /\ CatIdle /\ BudgetIdle

NextSms ==
    \/ SmsStart
    \/ PatternNotFound
    \/ AmountError
    \/ ReturnCandidate
    \/ ReturnNone

SpecSms == InitSms /\ [][NextSms]_vars

\* Lines 105-109: parse_email makes one text of subject and body and calls
\* parse_sms on it with email_date.
ParseEmail ==
    /\ sms_pc = "email"
    /\ sms_text' = FullText(email_subject, email_body)
    /\ sms_date' = email_date
    /\ sms_pc' = "start"
    /\ UNCHANGED <<attempt, sms_result, emailVars, parseVars, catVars, budgetVars>>

\* One call of parse_email on any subject and body, with or without a date.
InitEmail ==
    /\ email_subject \in EmailSubjects
    /\ email_body \in EmailBodies
    /\ email_date \in SmsDates
    /\ sms_text = <<>> /\ sms_date = None
    /\ sms_pc = "email" /\ attempt = 0 /\ sms_result = None
    /\ InitCalls({}, Documents) /\ CatIdle /\ BudgetIdle

NextEmail ==
    \/ ParseEmail
    \/ SmsStart
    \/ PatternNotFound
    \/ AmountError
    \/ ReturnCandidate
    \/ ReturnNone

SpecEmail == InitEmail /\ [][NextEmail]_vars

(***************************************************************************)
(* Properties of parse_sms.                                                *)
(***************************************************************************)
\* C4: every candidate parse_sms returns has an amount above the 0.01
\* floor; a notification whose captured amount is 0 or 0.00 yields none.
C4_SmsAmountFloor ==
    (sms_pc = "done" /\ sms_result # None) =>
        sms_result.amount.m * 100 > Pow10(sms_result.amount.d)

SmsDone == sms_pc = "done"

\* The patterns that are found in the prepared text, and those of them whose
\* captured amount float() converts.
Matching == {k \in 1..Len(patterns) : MatchTable[sms_text][k].ok}

Usable == {k \in Matching : SmsAmount(sms_text, MatchTable[sms_text][k]).ok}

\* The text of scenario C, as line 48 prepares it.
ScenarioC == Prepared(<<"C","A","R","T","E"," ","1","2","3","4"," ","-"," ","1","5",".","5","0"," ","E","U","R"," ","-"," ","C","A","R","R","E","F","O","U","R"," ","-"," ","1","2","/","0","1","/","2","0","2","4">>)

\* The candidate of scenario C with the given type.
ScenarioCCandidate(type) ==
    [description |-> <<"C","A","R","R","E","F","O","U","R">>, amount |-> [m |-> 155, d |-> 1],
     date |-> <<"2","0","2","4","-","0","1","-","1","2">>, category |-> None, source |-> "sms", type |-> type]

\* The returned candidate has one of the given type names, and the call on
\* the text of scenario C returns the candidate of scenario C with the type
\* name card.
TypedWith(names, card) ==
    (SmsDone /\ sms_result # None) =>
        /\ sms_result.type \in names
        /\ sms_text = ScenarioC => sms_result = ScenarioCCandidate(card)

\* C15 as stated: the call of scenario C returns amount 15.50, description
\* 'CARREFOUR', date '2024-01-12' and type 'card'; the type of any candidate
\* is one of card, transfer, debit.
C15_TypeCardTransferDebit == TypedWith({"card", "transfer", "debit"}, "card")

\* C15 amended: the call of scenario C returns amount 15.50, description
\* 'CARREFOUR', date '2024-01-12' and type 'carte'; the type of any
\* candidate is one of carte, virement, prelevement, the key of the pattern
\* list whose pattern matched.
C15_TypeIsPatternListKey ==
    /\ TypedWith({"carte", "virement", "prelevement"}, "carte")
    /\ (SmsDone /\ sms_result # None) =>
            /\ attempt \in Matching
            /\ sms_result.type = patterns[attempt].transaction_type

\* The call of scenario C has returned its candidate, typed 'carte'.
C15_Witness ==
    /\ SmsDone
    /\ sms_text = ScenarioC
    /\ sms_result # None
    /\ sms_result.type = "carte"

\* C16: a call on a text in which no pattern is found, the empty text
\* included, ends normally and returns None; no call is ever anywhere but
\* at its start, in its loops or at its return.
C16_NoMatchReturnsNone ==
    /\ sms_pc \in {"start", "try", "done"}
    /\ (SmsDone /\ Matching = {}) => sms_result = None

\* 'Bonjour': every pattern was tried, none was found, None was returned.
C16_Witness ==
    /\ SmsDone
    /\ sms_text = <<"B","O","N","J","O","U","R">>
    /\ attempt = Len(patterns) + 1
    /\ sms_result = None

\* The pattern groups in the order the specification gives: card payment,
\* transfer, direct debit.
GroupOrder == <<"carte", "virement", "prelevement">>

\* The first pattern of K in group order, then in the order of the list of
\* its group.
FirstPair(K) ==
    CHOOSE k \in K :
        \A j \in K \ {k} :
            LET gk == CHOOSE g \in 1..Len(GroupOrder) : GroupOrder[g] = patterns[k].transaction_type
                gj == CHOOSE g \in 1..Len(GroupOrder) : GroupOrder[g] = patterns[j].transaction_type
            IN  gk < gj \/ (gk = gj /\ k < j)

\* The candidate parse_sms builds from pattern k.
CandidateFrom(k) ==
    [description |-> SmsDescription(sms_text, MatchTable[sms_text][k]),
     amount      |-> SmsAmount(sms_text, MatchTable[sms_text][k]).v,
     date        |-> SmsDate(sms_text, MatchTable[sms_text][k], sms_date),
     category    |-> None,
     source      |-> "sms",
     type        |-> patterns[k].transaction_type]

\* C17: the call returns at most one candidate, the one built from the
\* first pair (group, pattern) that matches (and is not abandoned for its
\* amount, C18), the groups taken in the order card payment, transfer,
\* direct debit and the patterns of a group in listed order: a text matched
\* by patterns of two groups gets the type of the earlier group.
C17_FirstGroupFirstPattern ==
    (SmsDone /\ Usable # {}) =>
        /\ sms_result = CandidateFrom(FirstPair(Usable))
        /\ \A k \in Usable :
               sms_result.type # patterns[k].transaction_type =>
                   \E g, h \in 1..Len(GroupOrder) :
                       /\ g < h
                       /\ GroupOrder[g] = sms_result.type
                       /\ GroupOrder[h] = patterns[k].transaction_type

\* A text that starts with a direct debit and goes on with a card payment:
\* patterns of both groups match, the candidate is the card payment.
C17_Witness ==
    /\ SmsDone
    /\ \E j, k \in Usable :
           /\ patterns[j].transaction_type = "carte"
           /\ patterns[k].transaction_type = "prelevement"
    /\ sms_result # None
    /\ sms_result.type = "carte"
    /\ sms_result.description = <<"F","N","A","C">>

\* The patterns that match and whose captured amount float() rejects.
Abandoned == Matching \ Usable

\* C18: a pattern that matches with an amount that cannot be converted is
\* abandoned alone: the call goes on with the patterns after it and returns
\* the candidate of the first of them that succeeds, None when none does.
C18_AmountErrorAbandonsOneAttempt ==
    SmsDone =>
        \A j \in Abandoned :
            (\A i \in Usable : i > j) =>
                IF Usable = {} THEN sms_result = None
                ELSE /\ sms_result # None
                     /\ attempt > j
                     /\ attempt = SetMin(Usable)
                     /\ sms_result.amount = SmsAmount(sms_text, MatchTable[sms_text][attempt]).v

\* A card payment of amount '1.2.3' followed by a direct debit of 25,00: the
\* card pattern was abandoned and the direct debit was returned.
C18_Witness ==
    /\ SmsDone
    /\ 1 \in Abandoned
    /\ sms_result # None
    /\ sms_result.type = "prelevement"
    /\ sms_result.amount = [m |-> 25, d |-> 0]

\* C19: the notification 'Paiement CB 15,50[euro] CARREFOUR le 12/01/24',
\* whose date has a year of two digits, yields a candidate dated
\* 2024-01-12, and the virement notification of date 12/01/24 likewise.
C19_TwoDigitYear ==
    (/\ SmsDone
     /\ sms_text \in {Prepared(<<"P","a","i","e","m","e","n","t"," ","C","B"," ","1","5",",","5","0","euro"," ","C","A","R","R","E","F","O","U","R"," ","l","e"," ","1","2","/","0","1","/","2","4">>),
                      Prepared(<<"V","i","r","e","m","e","n","t"," ","r","e","ccedil","u"," ","d","e"," ","1","0","0",".","0","0"," ","E","U","R"," ","-"," ","X"," ","-"," ","1","2","/","0","1","/","2","4">>)})
    => /\ sms_result # None
       /\ sms_result.date = <<"2","0","2","4","-","0","1","-","1","2">>

\* DD/MM/YYYY written YYYY-MM-DD
IsoOfSlashDate(g) ==
    SubSeq(g, 7, 10) \o <<"-">> \o SubSeq(g, 4, 5) \o <<"-">> \o SubSeq(g, 1, 2)

\* C20: the date of a candidate whose pattern captured no date is the date
\* the caller gave, or the current date when the caller gave none; the
\* date of a candidate whose pattern captured a date is that date, whatever
\* the caller gave.
C20_DateFallback ==
    (SmsDone /\ sms_result # None) =>
        IF GroupIsNone(MatchTable[sms_text][attempt], 3)
        THEN sms_result.date = (IF sms_date # None THEN sms_date ELSE Today)
        ELSE sms_result.date = IsoOfSlashDate(Group(sms_text, MatchTable[sms_text][attempt], 3))

\* A transfer notification with no date, parsed with the caller's date
\* 2024-02-01: the candidate has the caller's date.
C20_Witness ==
    /\ SmsDone
    /\ sms_result # None
    /\ GroupIsNone(MatchTable[sms_text][attempt], 3)
    /\ sms_date = <<"2","0","2","4","-","0","2","-","0","1">>
    /\ sms_result.date = <<"2","0","2","4","-","0","2","-","0","1">>
    /\ sms_text = Prepared(<<"V","i","r","e","m","e","n","t"," ","r","e","ccedil","u"," ","d","e"," ","1","0","0",".","0","0"," ","E","U","R"," ","-">>)

\* C21: no candidate parse_sms returns has the empty string as description:
\* the description is the captured text trimmed, and the placeholder
\* 'Transaction' stands for a group that is missing or empty once trimmed.
C21_DescriptionNeverEmpty ==
    (SmsDone /\ sms_result # None) =>
        /\ sms_result.description # <<>>
        /\ sms_result.description \in
               {<<"T","r","a","n","s","a","c","t","i","o","n">>, Strip(Group(sms_text, MatchTable[sms_text][attempt], 2))}

\* C22: parse_email(subject, body, date) returns what parse_sms returns for
\* the text made of subject, a space and body with the same date: the same
\* candidate, field by field, or the same None.
C22_EmailAsSms ==
    (SmsDone /\ sms_pc # "idle") =>
        sms_result = ParseSms(email_subject \o <<" ">> \o email_body, email_date)

\* The card notification split over the subject 'CARTE' and the body was
\* returned as a candidate of type 'carte' with the date of the text.
C22_Witness ==
    /\ SmsDone
    /\ email_subject = <<"C","A","R","T","E">>
    /\ email_body = <<"1","2","3","4"," ","-"," ","1","5",".","5","0"," ","E","U","R"," ","-"," ","C","A","R","R","E","F","O","U","R"," ","-"," ","1","2","/","0","1","/","2","0","2","4">>
    /\ sms_result # None
    /\ sms_result.type = "carte"
    /\ sms_result.date = <<"2","0","2","4","-","0","1","-","1","2">>

(***************************************************************************)
(* Budgets: create_budget, update_budget, delete_budget                    *)
(* (src/database/crud.py) on the table of BudgetModel.  The endpoints of   *)
(* src/main.py call them without awaiting anything in between, so each     *)
(* call is one step.                                                       *)
(***************************************************************************)
\* The values of the requests.  An amount is a whole number of euros.
BudgetCategories == {"Logement", "Loisirs"}
BudgetAmounts == {10, 20}
BudgetMonths == {1, 2}
BudgetYears == {2025}

\* The most rows the table holds.
MaxBudgets == 3

\* An Optional field of BudgetUpdate: <<>> is None, <<v>> is v.
Optional(values) == {None} \cup {<<v>> : v \in values}

\* The indices of the rows the filter of lines 72-76 keeps.
Existing(budget_category, month, year) ==
    {i \in 1..Len(budgets) :
        /\ budgets[i].category = budget_category
        /\ budgets[i].month = month
        /\ budgets[i].year = year}

\* The indices of the rows with the id (lines 115 and 132).
WithId(budget_id) == {i \in 1..Len(budgets) : budgets[i].id = budget_id}

\* INTEGER PRIMARY KEY of SQLite: one more than the largest id in use.
RowId(rows) ==
    IF rows = <<>> THEN 1
    ELSE 1 + CHOOSE n \in {rows[i].id : i \in 1..Len(rows)} :
                 \A i \in 1..Len(rows) : rows[i].id <= n

\* Lines 118-123: the fields of the update that are not None are assigned.
Updated(budget, amount, month, year) ==
    [budget EXCEPT !.amount = IF amount # None THEN amount[1] ELSE @,
                   !.month = IF month # None THEN month[1] ELSE @,
                   !.year = IF year # None THEN year[1] ELSE @]

\* rows without its i-th row
Without(rows, i) == SubSeq(rows, 1, i - 1) \o SubSeq(rows, i + 1, Len(rows))

\* Lines 70-93: the row first() gives, which is any of those the filter
\* keeps, has its amount overwritten; with no such row one is inserted.
CreateBudget(budget_category, amount, month, year) ==
    /\ IF Existing(budget_category, month, year) # {}
       THEN /\ \E i \in Existing(budget_category, month, year) :
                   budgets' = [budgets EXCEPT ![i].amount = amount]
            /\ UNCHANGED next_id
       ELSE /\ Len(budgets) < MaxBudgets
            /\ budgets' = Append(budgets,
                   [id |-> next_id, category |-> budget_category, amount |-> amount,
                    month |-> month, year |-> year])
            /\ next_id' = next_id + 1
    /\ UNCHANGED <<parseVars, catVars, smsVars>>

\* Lines 113-128: no row with the id, None is returned; else the row is
\* updated.
UpdateBudget(budget_id, amount, month, year) ==
    /\ IF WithId(budget_id) = {}
       THEN UNCHANGED budgets
       ELSE \E i \in WithId(budget_id) :
               budgets' = [budgets EXCEPT ![i] = Updated(@, amount, month, year)]
    /\ UNCHANGED next_id
    /\ UNCHANGED <<parseVars, catVars, smsVars>>

\* Lines 130-137: no row with the id, False is returned; else the row is
\* deleted.
DeleteBudget(budget_id) ==
    /\ IF WithId(budget_id) = {}
       THEN UNCHANGED budgets
       ELSE \E i \in WithId(budget_id) : budgets' = Without(budgets, i)
    /\ next_id' = RowId(budgets')
    /\ UNCHANGED <<parseVars, catVars, smsVars>>

\* The table starts empty; nothing else runs.
InitBudget ==
    /\ budgets = <<>> /\ next_id = 1
    /\ InitCalls({}, Documents) /\ CatIdle /\ SmsIdle

NextBudget ==
    \/ \E budget_category \in BudgetCategories, amount \in BudgetAmounts,
          month \in BudgetMonths, year \in BudgetYears :
            CreateBudget(budget_category, amount, month, year)
    \/ \E budget_id \in 1..MaxBudgets, amount \in Optional(BudgetAmounts),
          month \in Optional(BudgetMonths), year \in Optional(BudgetYears) :
            UpdateBudget(budget_id, amount, month, year)
    \/ \E budget_id \in 1..MaxBudgets : DeleteBudget(budget_id)

SpecBudget == InitBudget /\ [][NextBudget]_vars

(***************************************************************************)
(* Properties of the budgets.                                              *)
(***************************************************************************)
\* The rows i and j are budgets of the same category, month and year.
SameTriple(i, j) ==
    /\ budgets[i].category = budgets[j].category
    /\ budgets[i].month = budgets[j].month
    /\ budgets[i].year = budgets[j].year

\* C30: after any sequence of create_budget, update_budget and delete_budget
\* calls there is at most one stored budget per (category, month, year).
C30_OneBudgetPerTriple ==
    \A i, j \in 1..Len(budgets) : SameTriple(i, j) => i = j

==========================================================================
